---- MODULE Spec2Model ----
(***************************************************************************)
(* The temporal feature-engineering and labelling pipeline of              *)
(* churn_predictor.py (class ChurnPredictor): the observation and label    *)
(* windows of build_training_table, the per-customer feature record of     *)
(* _extract_customer_features, the snapshot loop of                        *)
(* create_multiple_snapshots, and training, prediction and persistence;    *)
(* and the serving side of app/ml.py and app/processing.py: the cached     *)
(* model and feature order, feature_engineering, _align_columns and the    *)
(* predict_churn coroutines of the integrated and the legacy backend.      *)
(*                                                                         *)
(* Time is counted in ticks since a midnight epoch, TicksPerDay ticks to   *)
(* the day, so that timestamps and cutoffs may fall inside a day.  Numbers *)
(* that Python holds as int or float are exact rationals <<num, den>> in   *)
(* lowest terms, so that equal numbers are equal values.                   *)
(***************************************************************************)
EXTENDS Integers, Sequences, FiniteSets, TLC

VARIABLES
  config,        \* self.config : TemporalConfig
  data,          \* the caller's event table (a sequence of event rows)
  extract_call,  \* the last direct call of _extract_customer_features
  table_call,    \* the last call of build_training_table
  snap,          \* the frame of create_multiple_snapshots: its locals and outcome
  predictors,    \* the fields of each ChurnPredictor instance
  files,         \* what each path holds on disk
  predictor_call, \* the last call of a ChurnPredictor method, and what calls completed
  backend,       \* which backend's app/ml.py the process runs
  ml,            \* the globals of the integrated app/ml.py
  legacy,        \* the globals of the legacy app/ml.py
  disk,          \* the files of the models directory
  tasks,         \* the frame of each predict_churn coroutine
  align_call,    \* the last direct call of _align_columns
  load_call      \* the last direct call of a loader of app/ml.py

pipelineVars == <<config, data, extract_call, table_call, snap>>
predictorVars == <<predictors, files, predictor_call>>
servingVars == <<backend, ml, legacy, disk, tasks, align_call, load_call>>
vars == <<pipelineVars, predictorVars, servingVars>>

-----------------------------------------------------------------------------
(* Bounds of the model *)

TicksPerDay == 2
MaxEvents == 3
MaxSliceLen == 2
MaxCutoffs == 5
MaxOps == 3
MaxRows == 2
MaxBatch == 2
MaxOtherBatch == 1
MaxReads == 3

EventTypes ==
  {"purchase", "view", "add_to_cart", "refund", "support_ticket",
   "added_to_wishlist", "removed_from_cart", "removed_from_wishlist",
   "cart_quantity_updated"}

-----------------------------------------------------------------------------
(* datetime / timedelta arithmetic *)

\* timedelta(days=n)
timedelta_days(n) == n * TicksPerDay

\* timedelta.days : whole days, rounded towards minus infinity
days_of(delta) == delta \div TicksPerDay

\* Timestamp.date() : the calendar day a timestamp falls on
date_of(ts) == ts \div TicksPerDay

-----------------------------------------------------------------------------
(* Exact numbers *)

RECURSIVE GCD(_, _)
GCD(a, b) == IF b = 0 THEN a ELSE GCD(b, a % b)

Abs(n) == IF n < 0 THEN -n ELSE n

\* an int (or a float holding a whole number)
Num(n) == <<n, 1>>

\* the marker of a division whose divisor is zero (Python raises there)
DivByZero == <<1, 0>>

\* Python's a / b on non-negative counts and sums
Div(a, b) ==
  IF b = 0 THEN DivByZero
  ELSE LET g == GCD(Abs(a), b) IN <<a \div g, b \div g>>

Max2(a, b) == IF a >= b THEN a ELSE b

-----------------------------------------------------------------------------
(* Columns of an event table *)

RECURSIVE SumOf(_)
SumOf(s) == IF s = <<>> THEN 0 ELSE Head(s) + SumOf(Tail(s))

RECURSIVE MaxOf(_)
MaxOf(s) == IF Len(s) = 1 THEN s[1] ELSE Max2(Head(s), MaxOf(Tail(s)))

\* df[column] as a sequence
Column(df, name) == [i \in 1..Len(df) |-> df[i][name]]

\* Series.unique(): the distinct values in order of first appearance
RECURSIVE Unique(_)
Unique(s) ==
  IF s = <<>> THEN <<>>
  ELSE LET init == Unique(SubSeq(s, 1, Len(s) - 1))
           last == s[Len(s)]
       IN IF \E i \in 1..Len(init) : init[i] = last THEN init
          ELSE Append(init, last)

\* Series.nunique()
NUnique(s) == Cardinality({s[i] : i \in 1..Len(s)})

\* df[df['event_type'] == t]
OfType(df, t) == SelectSeq(df, LAMBDA e : e.event_type = t)

\* Series.value_counts().iloc[0] : the count of the most frequent value
TopCount(s) ==
  LET count(v) == Cardinality({i \in 1..Len(s) : s[i] = v})
  IN CHOOSE c \in 1..Len(s) :
       /\ \E i \in 1..Len(s) : count(s[i]) = c
       /\ \A i \in 1..Len(s) : count(s[i]) <= c

-----------------------------------------------------------------------------
(* Feature dicts: a Python dict is the sequence of its <<key, value>>      *)
(* pairs in insertion order.                                               *)

HasKey(d, k) == \E i \in 1..Len(d) : d[i][1] = k

Get(d, k) == d[CHOOSE i \in 1..Len(d) : d[i][1] = k][2]

\* d[k] = v
Put(d, k, v) ==
  IF HasKey(d, k)
  THEN [i \in 1..Len(d) |-> IF d[i][1] = k THEN <<k, v>> ELSE d[i]]
  ELSE Append(d, <<k, v>>)

\* DataFrame.drop([...], axis=1) on one row
DropKeys(d, ks) == SelectSeq(d, LAMBDA p : p[1] \notin ks)

-----------------------------------------------------------------------------
(* ChurnPredictor._get_default_features *)

\* processing.FEATURES_29: the names of the 29 training features
FEATURES_29 ==
  <<"recency_days", "frequency", "monetary", "avg_order_value", "max_order_value",
    "total_events", "view_count", "cart_add_count", "refund_count",
    "support_ticket_count", "wishlist_add_count", "cart_remove_count",
    "wishlist_remove_count", "cart_update_count", "view_to_cart_rate",
    "cart_to_purchase_rate", "overall_conversion_rate", "wishlist_to_purchase_rate",
    "cart_abandon_rate", "wishlist_abandon_rate", "cart_engagement_ratio",
    "category_diversity", "dominant_category_ratio", "days_active",
    "activity_intensity", "activity_trend", "purchase_trend", "refund_rate",
    "support_intensity">>

\* get_default_features with a recency of 0 like every other default
default_features_all_zero ==
  [i \in 1..Len(FEATURES_29) |-> <<FEATURES_29[i], Num(0)>>]

get_default_features ==
  << <<"recency_days", Num(config.observation_days)>>,
     <<"frequency", Num(0)>>,
     <<"monetary", Num(0)>>,
     <<"avg_order_value", Num(0)>>,
     <<"max_order_value", Num(0)>>,
     <<"total_events", Num(0)>>,
     <<"view_count", Num(0)>>,
     <<"cart_add_count", Num(0)>>,
     <<"refund_count", Num(0)>>,
     <<"support_ticket_count", Num(0)>>,
     <<"wishlist_add_count", Num(0)>>,
     <<"cart_remove_count", Num(0)>>,
     <<"wishlist_remove_count", Num(0)>>,
     <<"cart_update_count", Num(0)>>,
     <<"view_to_cart_rate", Num(0)>>,
     <<"cart_to_purchase_rate", Num(0)>>,
     <<"overall_conversion_rate", Num(0)>>,
     <<"wishlist_to_purchase_rate", Num(0)>>,
     <<"cart_abandon_rate", Num(0)>>,
     <<"wishlist_abandon_rate", Num(0)>>,
     <<"cart_engagement_ratio", Num(0)>>,
     <<"category_diversity", Num(0)>>,
     <<"dominant_category_ratio", Num(0)>>,
     <<"days_active", Num(0)>>,
     <<"activity_intensity", Num(0)>>,
     <<"activity_trend", Num(0)>>,
     <<"purchase_trend", Num(0)>>,
     <<"refund_rate", Num(0)>>,
     <<"support_intensity", Num(0)>> >>

-----------------------------------------------------------------------------
(* ChurnPredictor._extract_customer_features, section by section *)

\* rfm_with_purchases taking the first purchase for the last one
rfm_first_purchase(purchases, end_date) ==
  LET last_purchase == purchases[1].timestamp
      values == Column(purchases, "value")
  IN << <<"recency_days", Num(days_of(end_date - last_purchase))>>,
        <<"frequency", Num(Len(purchases))>>,
        <<"monetary", Num(SumOf(values))>>,
        <<"avg_order_value", Div(SumOf(values), Len(values))>>,
        <<"max_order_value", Num(MaxOf(values))>> >>

\* "RFM Features", the branch taken when the customer has purchases
rfm_with_purchases(purchases, end_date) ==
  LET last_purchase == MaxOf(Column(purchases, "timestamp"))
      values == Column(purchases, "value")
  IN << <<"recency_days", Num(days_of(end_date - last_purchase))>>,
        <<"frequency", Num(Len(purchases))>>,
        <<"monetary", Num(SumOf(values))>>,
        <<"avg_order_value", Div(SumOf(values), Len(values))>>,
        <<"max_order_value", Num(MaxOf(values))>> >>

\* "RFM Features", the branch taken when the customer has no purchase
rfm_without_purchases ==
  << <<"recency_days", Num(config.observation_days)>>,
     <<"frequency", Num(0)>>,
     <<"monetary", Num(0)>>,
     <<"avg_order_value", Num(0)>>,
     <<"max_order_value", Num(0)>> >>

\* rate without its guard
rate_unguarded(numerator, denominator) == Div(numerator, denominator)

\* (numerator / denominator) if denominator > 0 else 0
rate(numerator, denominator) ==
  IF denominator > 0 THEN Div(numerator, denominator) ELSE Num(0)

\* mid_date of the "Trend analysis"
mid_date(start_date) ==
  start_date + timedelta_days(config.observation_days \div 2)

\* trend counting the second half alone
trend_second_half_only(df, start_date) ==
  LET mid == mid_date(start_date)
  IN Len(SelectSeq(df, LAMBDA e : e.timestamp >= mid))

\* "Temporal Patterns": len(second_half) - len(first_half)
trend(df, start_date) ==
  LET mid == mid_date(start_date)
      first_half == SelectSeq(df, LAMBDA e : e.timestamp < mid)
      second_half == SelectSeq(df, LAMBDA e : e.timestamp >= mid)
  IN Len(second_half) - Len(first_half)

\* "Temporal Patterns": the purchase trend, counted inside the two halves
purchase_trend(df, start_date) ==
  LET mid == mid_date(start_date)
      first_half == SelectSeq(df, LAMBDA e : e.timestamp < mid)
      second_half == SelectSeq(df, LAMBDA e : e.timestamp >= mid)
  IN Len(OfType(second_half, "purchase")) - Len(OfType(first_half, "purchase"))

\* the dict built for a non-empty slice, in the order its keys are assigned
extract_nonempty(customer_data, start_date, end_date) ==
  LET purchases == OfType(customer_data, "purchase")
      views == OfType(customer_data, "view")
      cart_adds == OfType(customer_data, "add_to_cart")
      refunds == OfType(customer_data, "refund")
      support == OfType(customer_data, "support_ticket")
      wishlist_adds == OfType(customer_data, "added_to_wishlist")
      cart_removes == OfType(customer_data, "removed_from_cart")
      wishlist_removes == OfType(customer_data, "removed_from_wishlist")
      cart_updates == OfType(customer_data, "cart_quantity_updated")
      categories == Column(customer_data, "product_category")
      active_dates ==
        NUnique([i \in 1..Len(customer_data) |-> date_of(customer_data[i].timestamp)])
  IN (IF Len(purchases) > 0 THEN rfm_with_purchases(purchases, end_date)
      ELSE rfm_without_purchases)
     \o
     << <<"total_events", Num(Len(customer_data))>>,
        <<"view_count", Num(Len(views))>>,
        <<"cart_add_count", Num(Len(cart_adds))>>,
        <<"refund_count", Num(Len(refunds))>>,
        <<"support_ticket_count", Num(Len(support))>>,
        <<"wishlist_add_count", Num(Len(wishlist_adds))>>,
        <<"cart_remove_count", Num(Len(cart_removes))>>,
        <<"wishlist_remove_count", Num(Len(wishlist_removes))>>,
        <<"cart_update_count", Num(Len(cart_updates))>>,
        <<"view_to_cart_rate", rate(Len(cart_adds), Len(views))>>,
        <<"cart_to_purchase_rate", rate(Len(purchases), Len(cart_adds))>>,
        <<"overall_conversion_rate", rate(Len(purchases), Len(views))>>,
        <<"wishlist_to_purchase_rate", rate(Len(purchases), Len(wishlist_adds))>>,
        <<"cart_abandon_rate", rate(Len(cart_removes), Len(cart_adds))>>,
        <<"wishlist_abandon_rate", rate(Len(wishlist_removes), Len(wishlist_adds))>>,
        <<"cart_engagement_ratio", rate(Len(cart_updates), Len(cart_adds))>>,
        <<"category_diversity", Num(NUnique(categories))>>,
        <<"dominant_category_ratio", Div(TopCount(categories), Len(customer_data))>>,
        <<"days_active", Num(active_dates)>>,
        <<"activity_intensity", Div(Len(customer_data), Max2(active_dates, 1))>>,
        <<"activity_trend", Num(trend(customer_data, start_date))>>,
        <<"purchase_trend", Num(purchase_trend(customer_data, start_date))>>,
        <<"refund_rate", Div(Len(refunds), Max2(Len(purchases), 1))>>,
        <<"support_intensity", Div(Len(support), Max2(Len(customer_data), 1))>> >>

\* whether building the dict divided by zero somewhere
DividesByZero(features) == \E i \in 1..Len(features) : features[i][2] = DivByZero

\* _extract_customer_features: the dict returned, or the exception raised
extract_customer_features(customer_data, start_date, end_date) ==
  IF Len(customer_data) = 0
  THEN [exc |-> "none", value |-> get_default_features]
  ELSE LET features == extract_nonempty(customer_data, start_date, end_date)
       IN IF DividesByZero(features)
          THEN [exc |-> "ZeroDivisionError", value |-> <<>>]
          ELSE [exc |-> "none", value |-> features]

-----------------------------------------------------------------------------
(* ChurnPredictor.build_training_table *)

\* the four temporal boundaries of a cutoff
boundaries(cutoff_date) ==
  LET label_start == cutoff_date + timedelta_days(config.gap_days)
  IN [observation_start |-> cutoff_date - timedelta_days(config.observation_days),
      observation_end |-> cutoff_date,
      label_start |-> label_start,
      label_end |-> label_start + timedelta_days(config.label_days)]

\* observation_mask with the cutoff itself let in
observation_mask_closed(timestamp, b) ==
  timestamp >= b.observation_start /\ timestamp <= b.observation_end

\* (data['timestamp'] >= observation_start) & (data['timestamp'] < observation_end)
observation_mask(timestamp, b) ==
  timestamp >= b.observation_start /\ timestamp < b.observation_end

\* label_mask counting from the cutoff, the gap forgotten
label_mask_from_cutoff(timestamp, b) ==
  timestamp >= b.observation_end /\ timestamp < b.label_end

\* (data['timestamp'] >= label_start) & (data['timestamp'] < label_end)
label_mask(timestamp, b) ==
  timestamp >= b.label_start /\ timestamp < b.label_end

\* observation_data with no upper end: everything from observation_start on
observation_data_unbounded(df, b) ==
  SelectSeq(df, LAMBDA e : e.timestamp >= b.observation_start)

\* obs_data
observation_data(df, b) ==
  SelectSeq(df, LAMBDA e : observation_mask(e.timestamp, b))

\* label_data
label_data(df, b) ==
  SelectSeq(df, LAMBDA e : label_mask(e.timestamp, b))

\* customers_of without .unique(): one entry per event
customers_of_repeated(obs_data) == Column(obs_data, "customer_id")

\* customers: the customers of the observation period, in order of first appearance
customers_of(obs_data) == Unique(Column(obs_data, "customer_id"))

\* obs_data[obs_data['customer_id'] == customer_id]
customer_obs(obs_data, customer_id) ==
  SelectSeq(obs_data, LAMBDA e : e.customer_id = customer_id)

\* lambda x: 0 if x in active_customers else 1
churn_label(customer_id, active_customers) ==
  IF customer_id \in active_customers THEN 0 ELSE 1

\* the call's outcome: what it returns, or the exception it raises.  The
\* boundaries, the two row masks and the customer_id column of features_df
\* are kept beside the outcome.
build_training_table(df, cutoff_date) ==
  LET b == boundaries(cutoff_date)
      obs_data == observation_data(df, b)
      lab_data == label_data(df, b)
      customers == customers_of(obs_data)
      extracted == [i \in 1..Len(customers) |->
                      extract_customer_features(customer_obs(obs_data, customers[i]),
                                                b.observation_start, b.observation_end)]
      features_list == [i \in 1..Len(customers) |->
                          Put(extracted[i].value, "customer_id", customers[i])]
      active_customers == {lab_data[i].customer_id : i \in 1..Len(lab_data)}
      features_df == [i \in 1..Len(features_list) |->
                        Put(features_list[i], "churn_label",
                            churn_label(Get(features_list[i], "customer_id"),
                                        active_customers))]
      locals == [boundaries |-> b,
                 obs_rows |-> [i \in 1..Len(df) |-> observation_mask(df[i].timestamp, b)],
                 label_rows |-> [i \in 1..Len(df) |-> label_mask(df[i].timestamp, b)]]
      failed(exc) == [exc |-> exc, features |-> <<>>, labels |-> <<>>,
                      customer_ids |-> <<>>, locals |-> locals]
  IN IF \E i \in 1..Len(extracted) : extracted[i].exc # "none"
     THEN failed("ZeroDivisionError")
     ELSE IF Len(features_list) = 0
     THEN failed("KeyError")  \* pd.DataFrame([]) has no 'customer_id' column
     ELSE [exc |-> "none",
           features |-> [i \in 1..Len(features_df) |->
                           DropKeys(features_df[i], {"churn_label", "customer_id"})],
           labels |-> [i \in 1..Len(features_df) |-> Get(features_df[i], "churn_label")],
           customer_ids |-> [i \in 1..Len(features_df) |->
                               Get(features_df[i], "customer_id")],
           locals |-> locals]

-----------------------------------------------------------------------------
(* ChurnPredictor.create_multiple_snapshots *)

\* the loop test comparing against one step past end_date
loop_continues_past_end(current_date, end_date) ==
  current_date <= end_date + timedelta_days(config.step_days)

\* loop_continues stopping short of end_date
loop_continues_before_end(current_date, end_date) == current_date < end_date

\* while current_date <= end_date
loop_continues(current_date, end_date) == current_date <= end_date

\* current_date += timedelta(days=self.config.step_days)
next_date(current_date) == current_date + timedelta_days(config.step_days)

\* tag_snapshot run after the date has been advanced
tag_snapshot_advanced(features, current_date) ==
  [i \in 1..Len(features) |->
     Put(features[i], "snapshot_date", current_date + timedelta_days(config.step_days))]

\* features['snapshot_date'] = current_date
tag_snapshot(features, current_date) ==
  [i \in 1..Len(features) |-> Put(features[i], "snapshot_date", current_date)]

\* if not all_features, with no more than one batch kept
no_valid_snapshots_below_two(all_features) == Len(all_features) < 2

\* if not all_features: no cutoff added a batch
no_valid_snapshots(all_features) == all_features = <<>>

\* pd.concat(frames, ignore_index=True): the frames' rows, frame after frame
RECURSIVE pd_concat(_)
pd_concat(frames) ==
  IF frames = <<>> THEN <<>> ELSE Head(frames) \o pd_concat(Tail(frames))

-----------------------------------------------------------------------------
(* ChurnPredictor: training, prediction and persistence                     *)
(*                                                                         *)
(* Python's None is the empty sequence and a value x that may be None is   *)
(* the one-element sequence <<x>>.  The classifier and the scaler are      *)
(* opaque library objects: each is known by whether it has been fitted and *)
(* by the training frame (its columns and its name) it was fitted on.      *)

None == <<>>
Some(x) == <<x>>

\* the names in a sequence of names
NameSet(names) == {names[k] : k \in 1..Len(names)}

\* TemporalConfig(): the defaults of the dataclass
DefaultConfig ==
  [observation_days |-> 90, gap_days |-> 10, label_days |-> 45, step_days |-> 14]

\* StandardScaler(), and the scaler once fit_transform has fitted it
StandardScaler == [fitted |-> FALSE, columns |-> <<>>, frame |-> ""]
fit_scaler(columns, frame) == [fitted |-> TRUE, columns |-> columns, frame |-> frame]

\* xgb.XGBClassifier(...), and the classifier once fit has fitted it
XGBClassifier == [fitted |-> FALSE, columns |-> <<>>, frame |-> ""]
fit_model(columns, frame) == [fitted |-> TRUE, columns |-> columns, frame |-> frame]

\* ChurnPredictor(config).__init__
new_predictor(cfg) ==
  [config |-> cfg,
   model |-> None,
   scaler |-> StandardScaler,
   feature_columns |-> None,
   feature_importance_ |-> None]

\* features.columns.tolist() as it is, snapshot_date kept
drop_snapshot_date_kept(columns) == columns

\* features.drop('snapshot_date', axis=1) if the column is present
drop_snapshot_date(columns) ==
  IF "snapshot_date" \in NameSet(columns)
  THEN SelectSeq(columns, LAMBDA c : c # "snapshot_date")
  ELSE columns

\* the library calls of train_model that can raise, in the order of the code
TrainSteps == <<"train_test_split", "fit_transform", "fit", "roc_auc_score">>

\* train_model(features, labels) on the predictor self.  features is a frame
\* [name, columns]; fails_at is the library call that raises, "none" if none
\* does; ranking is the order of the fitted model's feature_importances_.
\* Every assignment to self made before the raise stays.
train_model(self, features, fails_at, ranking) ==
  LET columns == drop_snapshot_date(features.columns)
      \* self.feature_columns = features.columns.tolist()
      s1 == [self EXCEPT !.feature_columns = Some(columns)]
      \* self.scaler.fit_transform(X_train): fit() resets the scaler first
      s2reset == [s1 EXCEPT !.scaler = StandardScaler]
      s2 == [s1 EXCEPT !.scaler = fit_scaler(columns, features.name)]
      \* self.model = xgb.XGBClassifier(...)
      s3 == [s2 EXCEPT !.model = Some(XGBClassifier)]
      \* self.model.fit(X_train_scaled, y_train)
      s4 == [s3 EXCEPT !.model = Some(fit_model(columns, features.name))]
      \* self.feature_importance_ = pd.DataFrame(...).sort_values(...)
      s5 == [s4 EXCEPT !.feature_importance_ = Some(ranking)]
  IN CASE fails_at = "train_test_split" -> [exc |-> "ValueError(train_test_split)", self |-> s1]
       [] fails_at = "fit_transform" -> [exc |-> "ValueError(fit_transform)", self |-> s2reset]
       [] fails_at = "fit" -> [exc |-> "ValueError(fit)", self |-> s3]
       [] fails_at = "roc_auc_score" -> [exc |-> "ValueError(roc_auc_score)", self |-> s4]
       [] OTHER -> [exc |-> "none", self |-> s5]

MustBeTrained == "ValueError(Model must be trained before making predictions)"
MustBeTrainedImportance ==
  "ValueError(Model must be trained before accessing feature importance)"
NoModelToSave == "ValueError(No model to save. Train the model first.)"

\* predict_churn_probability(features): the probabilities are known by the
\* classifier, the scaler and the column order that produced them
predict_churn_probability(self, features) ==
  LET raised(exc) == [exc |-> exc, value |-> None]
  IN IF self.model = None THEN raised(MustBeTrained)
     ELSE LET feature_columns == self.feature_columns[1]
              model == self.model[1]
          IN IF ~(NameSet(feature_columns) \subseteq NameSet(features.columns))
             THEN raised("KeyError")             \* features[self.feature_columns]
             ELSE IF ~self.scaler.fitted
             THEN raised("NotFittedError(scaler)")  \* self.scaler.transform
             ELSE IF self.scaler.columns # feature_columns
             THEN raised("ValueError(transform)")
             ELSE IF ~model.fitted
             THEN raised("NotFittedError(model)")   \* self.model.predict_proba
             ELSE IF Len(model.columns) # Len(feature_columns)
             THEN raised("ValueError(predict_proba)")
             ELSE [exc |-> "none",
                   value |-> Some([model |-> model, scaler |-> self.scaler,
                                   columns |-> feature_columns])]

\* get_feature_importance(top_n)
get_feature_importance(self, top_n) ==
  IF self.feature_importance_ = None
  THEN [exc |-> MustBeTrainedImportance, value |-> None]
  ELSE [exc |-> "none",
        value |-> Some(SubSeq(self.feature_importance_[1], 1,
                              IF top_n < Len(self.feature_importance_[1]) THEN top_n
                              ELSE Len(self.feature_importance_[1])))]

\* the dict save_model builds: its keys and values in insertion order
model_data_of(self) ==
  << <<"model", self.model>>,
     <<"scaler", self.scaler>>,
     <<"feature_columns", self.feature_columns>>,
     <<"config", self.config>>,
     <<"feature_importance", self.feature_importance_>> >>

\* joblib.dump(obj, filepath) writes the pickle of the dict: a stream that
\* names its protocol and holds key, value, key, value, ... in insertion order
joblib_dump(obj) ==
  [protocol |-> "pickle",
   stream |-> [k \in 1..(2 * Len(obj)) |-> obj[(k + 1) \div 2][2 - (k % 2)]]]

\* joblib.load(filepath) pairs the stream up into a dict again
joblib_load(file) ==
  [k \in 1..(Len(file.stream) \div 2) |-> <<file.stream[2 * k - 1], file.stream[2 * k]>>]

\* save_model(filepath): the file written, None if nothing is written
save_model(self) ==
  IF self.model = None
  THEN [exc |-> NoModelToSave, file |-> None]
  ELSE [exc |-> "none", file |-> Some(joblib_dump(model_data_of(self)))]

\* load_model with self.config left as it was
load_model_keeps_config(self, file) ==
  IF file = None
  THEN [exc |-> "FileNotFoundError", self |-> self]
  ELSE LET model_data == joblib_load(file[1])
       IN [exc |-> "none",
           self |-> [self EXCEPT
                       !.model = Get(model_data, "model"),
                       !.scaler = Get(model_data, "scaler"),
                       !.feature_columns = Get(model_data, "feature_columns"),
                       !.feature_importance_ = Get(model_data, "feature_importance")]]

\* load_model(filepath), file being what the path holds (None: no such file)
load_model(self, file) ==
  IF file = None
  THEN [exc |-> "FileNotFoundError", self |-> self]
  ELSE LET model_data == joblib_load(file[1])
       IN [exc |-> "none",
           self |-> [model |-> Get(model_data, "model"),
                     scaler |-> Get(model_data, "scaler"),
                     feature_columns |-> Get(model_data, "feature_columns"),
                     config |-> Get(model_data, "config"),
                     feature_importance_ |-> Get(model_data, "feature_importance")]]

-----------------------------------------------------------------------------
(* app/processing.py: feature_engineering                                   *)
(*                                                                         *)
(* A DataFrame is [columns, rows]: the column names in order and, for each *)
(* row in index order, the values under those columns.  A cell is an exact *)
(* number, NaN, or Text (a value astype(float) cannot convert).            *)

NaN == <<0, 0>>
Text == <<0, -1>>

\* float addition and division of cells
Add(x, y) ==
  IF x = NaN \/ y = NaN THEN NaN
  ELSE Div(x[1] * y[2] + y[1] * x[2], x[2] * y[2])
Quot(x, y) ==
  IF x = NaN \/ y = NaN THEN NaN
  ELSE Div(x[1] * y[2], x[2] * y[1])

\* x > 0 and x == 0 on a cell; both are False on NaN
Positive(x) == x # NaN /\ x[1] > 0
IsZero(x) == x # NaN /\ x[1] = 0

\* np.maximum(1.0, x)
maximum_1(x) == IF x = NaN THEN NaN ELSE IF x[1] < x[2] THEN Num(1) ELSE x

\* _safe_div(a, b) on one row: np.where(b == 0, 0.0, a / b)
_safe_div(a, b) == IF IsZero(b) THEN Num(0) ELSE Quot(a, b)

\* pd.DataFrame(instances): the keys in order of first appearance are the
\* columns; a key an instance lacks is NaN in its row
DataFrame(instances) ==
  LET keys(i) == [k \in 1..Len(instances[i]) |-> instances[i][k][1]]
      columns == Unique(pd_concat([i \in 1..Len(instances) |-> keys(i)]))
  IN [columns |-> columns,
      rows |-> [i \in 1..Len(instances) |->
                  [c \in 1..Len(columns) |->
                     IF HasKey(instances[i], columns[c])
                     THEN Get(instances[i], columns[c]) ELSE NaN]]]

\* df[name] on row i
Cell(df, i, name) ==
  df.rows[i][CHOOSE c \in 1..Len(df.columns) : df.columns[c] = name]

\* processing.RAW: the 8 raw signals
RAW ==
  <<"added_to_wishlist", "removed_from_wishlist", "added_to_cart",
    "removed_from_cart", "cart_quantity_updated", "total_sessions",
    "days_since_last_activity", "total_spent_usd">>

\* the dict of series feature_engineering builds, on one row of raw signals
engineered(raw) ==
  LET wish_add == raw["added_to_wishlist"]
      wish_rem == raw["removed_from_wishlist"]
      cart_add == raw["added_to_cart"]
      cart_rem == raw["removed_from_cart"]
      cart_upd == raw["cart_quantity_updated"]
      sessions == raw["total_sessions"]
      recency == raw["days_since_last_activity"]
      monetary == raw["total_spent_usd"]
      view_count == Num(0)
      refund_count == Num(0)
      support_ticket_count == Num(0)
      days_active == maximum_1(sessions)
      category_diversity == Num(0)
      dominant_category_ratio == Num(0)
      activity_trend == Num(0)
      purchase_trend_zero == Num(0)
      purchase_count == IF Positive(monetary) THEN Num(1) ELSE Num(0)
      total_events ==
        Add(Add(Add(Add(Add(Add(Add(Add(view_count, cart_add), cart_rem), cart_upd),
                            wish_add), wish_rem), purchase_count), refund_count),
            support_ticket_count)
      avg_order_value ==
        IF Positive(purchase_count) THEN Quot(monetary, purchase_count) ELSE Num(0)
      max_order_value == avg_order_value
  IN << <<"recency_days", recency>>,
        <<"frequency", sessions>>,
        <<"monetary", monetary>>,
        <<"avg_order_value", avg_order_value>>,
        <<"max_order_value", max_order_value>>,
        <<"total_events", total_events>>,
        <<"view_count", view_count>>,
        <<"cart_add_count", cart_add>>,
        <<"refund_count", refund_count>>,
        <<"support_ticket_count", support_ticket_count>>,
        <<"wishlist_add_count", wish_add>>,
        <<"cart_remove_count", cart_rem>>,
        <<"wishlist_remove_count", wish_rem>>,
        <<"cart_update_count", cart_upd>>,
        <<"view_to_cart_rate", _safe_div(cart_add, maximum_1(view_count))>>,
        <<"cart_to_purchase_rate", _safe_div(purchase_count, maximum_1(cart_add))>>,
        <<"overall_conversion_rate", _safe_div(purchase_count, maximum_1(sessions))>>,
        <<"wishlist_to_purchase_rate", _safe_div(purchase_count, maximum_1(wish_add))>>,
        <<"cart_abandon_rate", _safe_div(cart_rem, maximum_1(Add(cart_add, cart_upd)))>>,
        <<"wishlist_abandon_rate", _safe_div(wish_rem, maximum_1(wish_add))>>,
        <<"cart_engagement_ratio", _safe_div(Add(cart_add, cart_upd), maximum_1(sessions))>>,
        <<"category_diversity", category_diversity>>,
        <<"dominant_category_ratio", dominant_category_ratio>>,
        <<"days_active", days_active>>,
        <<"activity_intensity", _safe_div(total_events, maximum_1(days_active))>>,
        <<"activity_trend", activity_trend>>,
        <<"purchase_trend", purchase_trend_zero>>,
        <<"refund_rate", _safe_div(refund_count, maximum_1(purchase_count))>>,
        <<"support_intensity", _safe_div(support_ticket_count, maximum_1(days_active))>> >>

\* feature_engineering without the final reindex: the engineered columns
\* appended to the frame's own
feature_engineering_appended(df_in) ==
  LET raw(i) == [name \in NameSet(RAW) |->
                   IF name \in NameSet(df_in.columns) THEN Cell(df_in, i, name)
                   ELSE Num(0)]
  IN IF \E i \in 1..Len(df_in.rows), name \in NameSet(RAW) : raw(i)[name] = Text
     THEN [exc |-> "ValueError", value |-> df_in]
     ELSE [exc |-> "none",
           value |-> [columns |-> df_in.columns \o FEATURES_29,
                      rows |-> [i \in 1..Len(df_in.rows) |->
                                  LET out == engineered(raw(i))
                                  IN df_in.rows[i] \o
                                     [k \in 1..Len(FEATURES_29) |-> out[k][2]]]]]

\* feature_engineering(df_in): a raw column the frame lacks is 0 in every
\* row; astype(float) raises on a Text cell; the result is reindexed to
\* FEATURES_29 (a name the dict lacks would be filled with 0.0) and keeps the
\* rows in index order
feature_engineering(df_in) ==
  LET raw(i) == [name \in NameSet(RAW) |->
                   IF name \in NameSet(df_in.columns) THEN Cell(df_in, i, name)
                   ELSE Num(0)]
  IN IF \E i \in 1..Len(df_in.rows), name \in NameSet(RAW) : raw(i)[name] = Text
     THEN [exc |-> "ValueError", value |-> df_in]
     ELSE [exc |-> "none",
           value |-> [columns |-> FEATURES_29,
                      rows |-> [i \in 1..Len(df_in.rows) |->
                                  LET out == engineered(raw(i))
                                  IN [k \in 1..Len(FEATURES_29) |->
                                        IF HasKey(out, FEATURES_29[k])
                                        THEN Get(out, FEATURES_29[k]) ELSE Num(0)]]]]

-----------------------------------------------------------------------------
(* app/ml.py: the cached model, the feature order and _align_columns        *)
(*                                                                         *)
(* An estimator is an opaque object known by its attributes: whether it    *)
(* has predict, what its predict_proba does, feature_names_in_, the        *)
(* feature_names of its booster and n_features_in_.                        *)

\* bool(x) of a list that may be None
Truthy(x) == x # None /\ x[1] # <<>>

\* a or b
Or(a, b) == IF Truthy(a) THEN a ELSE b

\* _names_from_model(model)
_names_from_model(model) ==
  IF model.feature_names_in_ # None THEN model.feature_names_in_
  ELSE IF model.booster_feature_names # None THEN model.booster_feature_names
  ELSE None

\* _n_features_from_model(model)
_n_features_from_model(model) ==
  IF model.n_features_in_ # None THEN model.n_features_in_
  ELSE IF Truthy(model.booster_feature_names)
  THEN Some(Len(model.booster_feature_names[1]))
  ELSE None

\* the module's globals before anything is loaded; reads counts the
\* joblib.load calls made on a model artifact
fresh_globals ==
  [_model |-> None, _feature_order |-> None, _bundled_meta_loaded |-> FALSE,
   reads |-> 0]

\* obj.get(key) on a dict artifact
dict_get(obj, key) == IF HasKey(obj.items, key) THEN Get(obj.items, key) ELSE None

\* the first of the three values that is not None (estimators are truthy)
first_present(a, b, c) == IF a # None THEN a ELSE IF b # None THEN b ELSE c

\* _load_model past its cache check: the artifact is located, read with
\* joblib.load and cached, on the globals g and the disk d
load_artifact(g, d) ==
  LET path == IF d.PRIMARY_MODEL # None THEN d.PRIMARY_MODEL ELSE d.FALLBACK_MODEL
  IN IF path = None
     THEN [exc |-> "FileNotFoundError", globals |-> g, model |-> None]
     ELSE
       LET obj == path[1]
           read == [g EXCEPT !.reads = @ + 1]   \* joblib.load(path)
           m == first_present(dict_get(obj, "model"), dict_get(obj, "pipeline"),
                              dict_get(obj, "estimator"))
           fo == Or(Or(dict_get(obj, "feature_order"), dict_get(obj, "features")),
                    dict_get(obj, "feature_names"))
           bundled == Truthy(fo) /\ ~g._bundled_meta_loaded
           cached ==
             IF obj.type = "dict"
             THEN [read EXCEPT
                     !._model = m,
                     !._feature_order = IF bundled THEN fo ELSE @,
                     !._bundled_meta_loaded = IF bundled THEN TRUE ELSE @]
             ELSE [read EXCEPT !._model = Some(obj)]
       IN IF obj.type = "dict" /\ m = None
          THEN [exc |-> "TypeError", globals |-> read, model |-> None]
          ELSE IF ~cached._model[1].predict
          THEN [exc |-> "TypeError", globals |-> cached, model |-> None]
          ELSE [exc |-> "none", globals |-> cached, model |-> cached._model]

\* _load_model without its cache check: every call reads the artifact
_load_model_uncached(g, d) == load_artifact(g, d)

\* _load_model on the globals g and the disk d
_load_model(g, d) ==
  IF g._model # None THEN [exc |-> "none", globals |-> g, model |-> g._model]
  ELSE load_artifact(g, d)

\* _load_feature_order without its cache check: feature_order.json is read
\* on every call
_load_feature_order_rereading(g, d) ==
  IF d.FEATURE_ORDER_PATH = None THEN g
  ELSE LET json == d.FEATURE_ORDER_PATH[1]
       IN IF json.type = "dict" /\ json.features # None
          THEN [g EXCEPT !._feature_order = json.features]
          ELSE IF json.type = "list"
          THEN [g EXCEPT !._feature_order = Some(json.items)]
          ELSE g

\* _load_feature_order on the globals g and the disk d
_load_feature_order(g, d) ==
  IF g._feature_order # None THEN g
  ELSE IF d.FEATURE_ORDER_PATH = None THEN g
  ELSE LET json == d.FEATURE_ORDER_PATH[1]
       IN IF json.type = "dict" /\ json.features # None   \* "features" in data
          THEN [g EXCEPT !._feature_order = json.features]
          ELSE IF json.type = "list"
          THEN [g EXCEPT !._feature_order = Some(json.items)]
          ELSE g

\* get_expected_features() on the globals g and the disk d.  No estimator
\* here is a pipeline with named_steps, so the preprocessor lookup gives None.
get_expected_features(g, d) ==
  LET m == _load_model(g, d)
      loaded == _load_feature_order(m.globals, d)
  IN IF m.exc # "none" THEN [exc |-> m.exc, globals |-> m.globals, value |-> None]
     ELSE IF Truthy(loaded._feature_order)
     THEN [exc |-> "none", globals |-> loaded, value |-> loaded._feature_order]
     ELSE [exc |-> "none", globals |-> loaded,
           value |-> m.model[1].feature_names_in_]

\* the integrated backend's load_pipeline(): _load_model(), then
\* _load_feature_order() unless the first raised
load_pipeline_integrated(g, d) ==
  LET m == _load_model(g, d)
  IN IF m.exc # "none" THEN [exc |-> m.exc, globals |-> m.globals, value |-> None]
     ELSE [exc |-> "none", globals |-> _load_feature_order(m.globals, d),
           value |-> None]

\* get_pipeline()
get_pipeline(g, d) == _load_model(g, d)

\* pipeline_ready()
pipeline_ready(g) == g._model # None

\* the name list of _align_columns taken from the model whenever it has one
resolve_names_model_first(order_json, order_model) ==
  IF Truthy(order_model) THEN order_model ELSE order_json

\* the name list _align_columns resolves from the two orders
resolve_names(order_json, order_model) ==
  IF Truthy(order_json) /\ Truthy(order_model)
     /\ Len(order_json[1]) # Len(order_model[1])
  THEN order_model
  ELSE Or(order_json, order_model)

\* the elements of s at the positions in keep, in the order of s
AtPositions(s, keep) ==
  LET nth(k) == CHOOSE c \in keep : Cardinality({b \in keep : b < c}) = k - 1
  IN [k \in 1..Cardinality(keep) |-> s[nth(k)]]

\* for col in names: if col not in df.columns: df[col] = 0
\* (one new column of zeros on the right per name the frame lacks, in the
\* order the names first appear)
add_missing(df, names) ==
  LET new == AtPositions(names,
                         {k \in 1..Len(names) :
                            /\ names[k] \notin NameSet(df.columns)
                            /\ \A j \in 1..(k - 1) : names[j] # names[k]})
  IN [columns |-> df.columns \o new,
      rows |-> [i \in 1..Len(df.rows) |->
                  df.rows[i] \o [k \in 1..Len(new) |-> Num(0)]]]

\* df[names] keeping the frame's own column order
select_columns_frame_order(df, names) ==
  LET kept == {c \in 1..Len(df.columns) : df.columns[c] \in NameSet(names)}
  IN [columns |-> AtPositions(df.columns, kept),
      rows |-> [i \in 1..Len(df.rows) |-> AtPositions(df.rows[i], kept)]]

\* df[names]: the named columns in the order of names
select_columns(df, names) ==
  [columns |-> names,
   rows |-> [i \in 1..Len(df.rows) |->
               [k \in 1..Len(names) |-> Cell(df, i, names[k])]]]

\* the names of the padding columns, f"_pad_{i}" for i = 0, 1, ...
pad_name(i) ==
  <<"_pad_0", "_pad_1", "_pad_2", "_pad_3", "_pad_4", "_pad_5",
    "_pad_6", "_pad_7", "_pad_8", "_pad_9", "_pad_10", "_pad_11",
    "_pad_12", "_pad_13", "_pad_14", "_pad_15", "_pad_16", "_pad_17",
    "_pad_18", "_pad_19", "_pad_20", "_pad_21", "_pad_22", "_pad_23",
    "_pad_24", "_pad_25", "_pad_26", "_pad_27", "_pad_28", "_pad_29",
    "_pad_30", "_pad_31">>[i + 1]

\* for i in range(pad): df[f"_pad_{i}"] = 0
\* (a column of that name is overwritten with zeros, any other name is a new
\* column of zeros on the right)
pad_columns(df, pad) ==
  LET pads == [j \in 1..pad |-> pad_name(j - 1)]
      new == SelectSeq(pads, LAMBDA col : col \notin NameSet(df.columns))
  IN [columns |-> df.columns \o new,
      rows |-> [i \in 1..Len(df.rows) |->
                  [c \in 1..Len(df.columns) |->
                     IF df.columns[c] \in NameSet(pads) THEN Num(0)
                     ELSE df.rows[i][c]]
                  \o [k \in 1..Len(new) |-> Num(0)]]]

\* df.iloc[:, :n]
iloc_columns(df, n) ==
  [columns |-> SubSeq(df.columns, 1, n),
   rows |-> [i \in 1..Len(df.rows) |-> SubSeq(df.rows[i], 1, n)]]

\* the shape fallback keeping the last n_expected columns of a wider frame
pad_or_truncate_last(df, n_expected) ==
  IF Len(df.columns) < n_expected
  THEN pad_columns(df, n_expected - Len(df.columns))
  ELSE IF Len(df.columns) > n_expected
  THEN [columns |-> SubSeq(df.columns, Len(df.columns) - n_expected + 1, Len(df.columns)),
        rows |-> [i \in 1..Len(df.rows) |->
                    SubSeq(df.rows[i], Len(df.columns) - n_expected + 1, Len(df.columns))]]
  ELSE df

\* the shape fallback of _align_columns: pad on the right or truncate
pad_or_truncate(df, n_expected) ==
  IF Len(df.columns) < n_expected
  THEN pad_columns(df, n_expected - Len(df.columns))
  ELSE IF Len(df.columns) > n_expected
  THEN iloc_columns(df, n_expected)
  ELSE df

\* a DataFrame handed on with its labels, and df.values: the bare array
labelled(df) == [labels |-> Some(df.columns), values |-> df.rows]
values_of(df) == [labels |-> None, values |-> df.rows]

\* _align_columns(df, model) on the globals g and the disk d: the pair
\* (X, as_numpy), the names resolved (None when none are), the caller's
\* frame after the call (columns are added to it in place) and the globals
_align_columns(df, model, g, d) ==
  LET loaded == _load_feature_order(g, d)
      order_json == loaded._feature_order
      order_model == _names_from_model(model)
      n_expected == _n_features_from_model(model)
      names == resolve_names(order_json, order_model)
  IN IF names # None
     THEN LET filled == add_missing(df, names[1])
          IN [X |-> labelled(select_columns(filled, names[1])), as_numpy |-> FALSE,
              names |-> names, df |-> filled, globals |-> loaded]
     ELSE IF n_expected # None
     THEN LET shaped == pad_or_truncate(df, n_expected[1])
          IN [X |-> values_of(shaped), as_numpy |-> TRUE, names |-> None,
              df |-> IF Len(df.columns) < n_expected[1] THEN shaped ELSE df,
              globals |-> loaded]
     ELSE [X |-> values_of(df), as_numpy |-> TRUE, names |-> None,
           df |-> df, globals |-> loaded]

\* the estimator's decision on one row: opaque, but a function of the row
score(row) ==
  SumOf([k \in 1..Len(row) |-> IF row[k] \in {NaN, Text} THEN 0 ELSE row[k][1]])

\* whether the estimator takes X: at least one row, no Text cell, the width it was fitted on,
\* and, for a labelled frame, the names it was fitted on
accepts(model, X) ==
  /\ Len(X.values) > 0
  /\ \A i \in 1..Len(X.values) : \A c \in 1..Len(X.values[i]) : X.values[i][c] # Text
  /\ model.n_features_in_ # None =>
       \A i \in 1..Len(X.values) : Len(X.values[i]) = model.n_features_in_[1]
  /\ (X.labels # None /\ _names_from_model(model) # None) =>
       X.labels = _names_from_model(model)

\* model.predict(X): one class per row, in row order
predict(model, X) ==
  IF accepts(model, X)
  THEN [exc |-> "none", value |-> [i \in 1..Len(X.values) |-> score(X.values[i]) % 2]]
  ELSE [exc |-> "ValueError", value |-> <<>>]

\* model.predict_proba(X): the two class probabilities per row, in row order
predict_proba(model, X) ==
  IF model.predict_proba = "works" /\ accepts(model, X)
  THEN [exc |-> "none",
        value |-> [i \in 1..Len(X.values) |->
                     LET p1 == Div(score(X.values[i]) % 5, 4)
                     IN <<Div(p1[2] - p1[1], p1[2]), p1>>]]
  ELSE [exc |-> "ValueError", value |-> <<>>]

\* the result loop with the predictions taken from the last row backwards
build_results_reversed(n, preds, probas) ==
  [i \in 1..n |->
     [index |-> i - 1,
      prediction |-> preds[n + 1 - i],
      probability |-> IF probas = None THEN None ELSE Some(probas[1][n + 1 - i][2])]]

\* for i in range(len(df)): results.append({...}), n being len(df)
build_results(n, preds, probas) ==
  [i \in 1..n |->
     [index |-> i - 1,
      prediction |-> preds[i],
      probability |-> IF probas = None THEN None ELSE Some(probas[1][i][2])]]

\* from .processing import feature_engineering succeeds in this repository
_HAS_FE == TRUE

\* a coroutine of predict_churn that has not been called
NoTask ==
  [pc |-> "idle", exc |-> "none", instances |-> <<>>,
   df |-> [columns |-> <<>>, rows |-> <<>>],
   model |-> None, X |-> [labels |-> None, values |-> <<>>], as_numpy |-> FALSE,
   preds |-> <<>>, probas |-> None, results |-> <<>>, engineered |-> FALSE]

\* predict_churn(instances) up to its first await, on the globals g and the
\* disk d: the coroutine's frame and the globals.  The debug block between
\* _align_columns and the await catches its own exceptions and calls only
\* _load_model and _load_feature_order, which by then change nothing.
predict_churn_start(instances, g, d) ==
  LET raised(exc, globals) ==
        [task |-> [NoTask EXCEPT !.pc = "raised", !.exc = exc,
                                 !.instances = instances],
         globals |-> globals]
      df0 == DataFrame(instances)
      first == _load_model(g, d)             \* print(type(_load_model()))
      fe == feature_engineering(df0)
      df1 == IF _HAS_FE /\ fe.exc = "none" THEN fe.value ELSE df0
      second == _load_model(first.globals, d)   \* model = _load_model()
      a == _align_columns(df1, second.model[1], second.globals, d)
  IN IF Len(instances) = 0
     THEN [task |-> [NoTask EXCEPT !.pc = "returned"], globals |-> g]
     ELSE IF first.exc # "none" THEN raised(first.exc, first.globals)
     ELSE IF second.exc # "none" THEN raised(second.exc, second.globals)
     \* a cached object without predict: model.predict fails after alignment
     ELSE IF ~second.model[1].predict THEN raised("AttributeError", a.globals)
     ELSE [task |-> [NoTask EXCEPT
                       !.pc = "await_predict",
                       !.instances = instances,
                       !.df = a.df,
                       !.model = second.model,
                       !.X = a.X,
                       !.as_numpy = a.as_numpy,
                       !.engineered = _HAS_FE /\ fe.exc = "none"],
           globals |-> a.globals]

\* the frame of a coroutine once its results are built
finished(task, probas) ==
  [task EXCEPT !.pc = "returned", !.probas = probas,
               !.results = build_results(Len(task.df.rows), task.preds, probas)]

\* preds = await asyncio.to_thread(model.predict, X) returning or raising,
\* up to the next await or the return
predict_churn_predicted(task) ==
  LET r == predict(task.model[1], task.X)
      got == [task EXCEPT !.preds = r.value]
  IN IF r.exc # "none" THEN [task EXCEPT !.pc = "raised", !.exc = r.exc]
     ELSE IF task.model[1].predict_proba # "absent"   \* hasattr(model, "predict_proba")
     THEN [got EXCEPT !.pc = "await_proba"]
     ELSE finished(got, None)

\* the predict_proba call outside any try: its exception ends the coroutine
predict_churn_probabilities_unguarded(task) ==
  LET r == predict_proba(task.model[1], task.X)
  IN IF r.exc # "none" THEN [task EXCEPT !.pc = "raised", !.exc = r.exc]
     ELSE finished(task, Some(r.value))

\* probas = await asyncio.to_thread(model.predict_proba, X) returning or
\* raising (then probas = None), up to the return
predict_churn_probabilities(task) ==
  LET r == predict_proba(task.model[1], task.X)
  IN finished(task, IF r.exc = "none" THEN Some(r.value) ELSE None)

-----------------------------------------------------------------------------
(* The legacy backend's app/ml.py                                           *)

\* pipeline = None, FEATURE_ORDER = []
legacy_globals == [pipeline |-> None, FEATURE_ORDER |-> <<>>, reads |-> 0]

\* load_pipeline() on the globals g and the disk d
load_pipeline(g, d) ==
  IF g.pipeline # None THEN [exc |-> "none", globals |-> g]
  ELSE IF d.PIPELINE_PATH = None THEN [exc |-> "FileNotFoundError", globals |-> g]
  ELSE LET read == [g EXCEPT !.pipeline = d.PIPELINE_PATH, !.reads = @ + 1]
       IN IF d.LEGACY_FEATURE_ORDER_PATH = None
          THEN [exc |-> "FileNotFoundError", globals |-> read]
          ELSE [exc |-> "none",
                globals |-> [read EXCEPT
                               !.FEATURE_ORDER = d.LEGACY_FEATURE_ORDER_PATH[1]]]

\* build_dataframe(instances), FEATURE_ORDER being loaded
build_dataframe(instances, FEATURE_ORDER) ==
  [columns |-> FEATURE_ORDER,
   rows |-> [i \in 1..Len(instances) |->
               [c \in 1..Len(FEATURE_ORDER) |->
                  IF HasKey(instances[i], FEATURE_ORDER[c])
                  THEN Get(instances[i], FEATURE_ORDER[c]) ELSE NaN]]]

\* the legacy predict_churn(instances) up to its first await
legacy_predict_churn_start(instances, g, d) ==
  LET first == load_pipeline(g, d)                \* pipe, _ = load_pipeline()
      second == load_pipeline(first.globals, d)   \* in build_dataframe
      df == build_dataframe(instances, second.globals.FEATURE_ORDER)
      raised(exc, globals) ==
        [task |-> [NoTask EXCEPT !.pc = "raised", !.exc = exc,
                                 !.instances = instances],
         globals |-> globals]
  IN IF first.exc # "none" THEN raised(first.exc, first.globals)
     ELSE IF second.exc # "none" THEN raised(second.exc, second.globals)
     ELSE [task |-> [NoTask EXCEPT
                       !.pc = "await_predict",
                       !.instances = instances,
                       !.df = df,
                       !.model = first.globals.pipeline,
                       !.X = labelled(df)],
           globals |-> second.globals]


\* preds = await asyncio.to_thread(pipe.predict, df) returning or raising, up
\* to the next await or the return; an estimator without predict_proba
\* raises AttributeError inside the try before anything is awaited
legacy_predict_churn_predicted(task) ==
  LET r == predict(task.model[1], task.X)
      got == [task EXCEPT !.preds = r.value]
  IN IF r.exc # "none" THEN [task EXCEPT !.pc = "raised", !.exc = r.exc]
     ELSE IF task.model[1].predict_proba = "absent" THEN finished(got, None)
     ELSE [got EXCEPT !.pc = "await_proba"]

\* probas = await asyncio.to_thread(pipe.predict_proba, df) returning or
\* raising (then probas = None), up to the return
legacy_predict_churn_probabilities(task) ==
  LET r == predict_proba(task.model[1], task.X)
  IN finished(task, IF r.exc = "none" THEN Some(r.value) ELSE None)

-----------------------------------------------------------------------------
(* Bounded inputs *)

Customers == {"A", "B"}
Values == {10, 20, 30}
Categories == {"books", "toys"}

\* the sequences over S of length at most n
SeqsUpTo(S, n) == UNION {[1..k -> S] : k \in 0..n}

TemporalConfig(o, g, l, s) ==
  [observation_days |-> o, gap_days |-> g, label_days |-> l, step_days |-> s]

NoExtract == [status |-> "idle", start_date |-> 0, end_date |-> 0,
              exc |-> "none", value |-> <<>>]
NoTable == [status |-> "idle", cutoff_date |-> 0, exc |-> "none",
            features |-> <<>>, labels |-> <<>>, customer_ids |-> <<>>,
            locals |-> <<>>]
NoPlan == [called |-> FALSE, start_date |-> 0, end_date |-> 0, visited |-> <<>>]
NoSnap == [pc |-> "idle", start_date |-> 0, end_date |-> 0, current_date |-> 0,
           all_features |-> <<>>, all_labels |-> <<>>, all_ids |-> <<>>,
           snapshot_count |-> 0, visited |-> <<>>, exc |-> "none",
           combined_features |-> <<>>, combined_labels |-> <<>>,
           combined_ids |-> <<>>, prior |-> NoPlan]


\* the ChurnPredictor instances, the paths they save to, and the frames
\* they are trained on and asked to score
Instances == {1, 2}
Paths == {"model.pkl"}
Frames ==
  {[name |-> "january", columns |-> <<"recency_days", "frequency", "snapshot_date">>],
   [name |-> "february", columns |-> <<"snapshot_date", "frequency", "recency_days">>],
   [name |-> "march", columns |-> <<"frequency", "monetary">>]}
NoFrame == [name |-> "", columns |-> <<>>]

\* the orders in which names can be ranked
Rankings(names) ==
  {r \in [1..Len(names) -> NameSet(names)] : \A i, j \in 1..Len(names) : r[i] = r[j] => i = j}

\* ChurnPredictor() and ChurnPredictor(TemporalConfig(30, 0, 14, 7))
NewPredictors ==
  [i \in Instances |->
     IF i = 1 THEN new_predictor(DefaultConfig)
     ELSE new_predictor(TemporalConfig(30, 0, 14, 7))]
NoFiles == [p \in Paths |-> None]

\* no call of a ChurnPredictor method yet.  ready[i]: a train_model or
\* load_model call of instance i has completed; saved[p]: the predictor
\* whose save_model wrote the file at p, as it was then
NoCall ==
  [name |-> "none", self |-> 1, exc |-> "none", features |-> NoFrame,
   filepath |-> "", value |-> None, before |-> new_predictor(DefaultConfig),
   files_before |-> NoFiles, ready_before |-> FALSE,
   ready |-> [i \in Instances |-> FALSE], saved |-> [p \in Paths |-> None],
   count |-> 0]

PredictorsIdle ==
  /\ predictors = NewPredictors
  /\ files = NoFiles
  /\ predictor_call = NoCall

\* an estimator object as joblib.load returns it
Estimator(has_predict, proba, names_in, booster_names, n_in) ==
  [type |-> "estimator", predict |-> has_predict, predict_proba |-> proba,
   feature_names_in_ |-> names_in, booster_feature_names |-> booster_names,
   n_features_in_ |-> n_in]

\* a dict artifact
Dict(items) == [type |-> "dict", items |-> items]

\* the document of feature_order.json: a list of names, or a dict known by
\* what it holds under "features" (None when it lacks the key)
JsonList(items) == [type |-> "list", items |-> items, features |-> None]
JsonDict(features) == [type |-> "dict", items |-> <<>>, features |-> features]

\* a models directory without any file
NoDisk ==
  [PRIMARY_MODEL |-> None, FALLBACK_MODEL |-> None, FEATURE_ORDER_PATH |-> None,
   PIPELINE_PATH |-> None, LEGACY_FEATURE_ORDER_PATH |-> None]

\* the coroutines of predict_churn
Tasks == {1, 2}

\* no call of _align_columns yet
\* no loader called yet
NoLoad == [name |-> "none", exc |-> "none", value |-> None]

NoAlign ==
  [status |-> "idle", df |-> [columns |-> <<>>, rows |-> <<>>],
   model |-> Estimator(TRUE, "works", None, None, None),
   globals |-> fresh_globals,
   X |-> [labels |-> None, values |-> <<>>], as_numpy |-> FALSE, names |-> None,
   df_after |-> [columns |-> <<>>, rows |-> <<>>]]

ServingIdle ==
  /\ backend = "integrated"
  /\ ml = fresh_globals
  /\ legacy = legacy_globals
  /\ disk = NoDisk
  /\ tasks = [t \in Tasks |-> NoTask]
  /\ align_call = NoAlign
  /\ load_call = NoLoad

-----------------------------------------------------------------------------
(* Direct calls of _extract_customer_features on one customer's slice *)

\* an even and an odd observation window
ExtractConfigs == {TemporalConfig(2, 0, 1, 1), TemporalConfig(3, 0, 1, 1)}

\* the ticks of a slice's events: the first day, both halves of the second
\* day, the third day; those of them inside the window [0, observation_days)
SliceTimes(cfg) == {t \in {0, 2, 3, 5} : t < timedelta_days(cfg.observation_days)}

\* the events one customer can have inside the window: an event of every
\* type, purchases of every value, and views in a second category
SliceEvents(cfg) ==
  [timestamp : SliceTimes(cfg), customer_id : {"A"}, event_type : EventTypes,
   value : {10}, product_category : {"books"}]
  \cup
  [timestamp : SliceTimes(cfg), customer_id : {"A"}, event_type : {"purchase"},
   value : Values, product_category : {"books"}]
  \cup
  [timestamp : SliceTimes(cfg), customer_id : {"A"}, event_type : {"view"},
   value : {10}, product_category : Categories]

\* the purchases among them
SlicePurchases(cfg) == {e \in SliceEvents(cfg) : e.event_type = "purchase"}

\* every slice of at most MaxSliceLen events, and the slices of one purchase more
InitExtract ==
  /\ config \in ExtractConfigs
  /\ data \in SeqsUpTo(SliceEvents(config), MaxSliceLen)
              \cup [1..(MaxSliceLen + 1) -> SlicePurchases(config)]
  /\ extract_call = NoExtract
  /\ table_call = NoTable
  /\ snap = NoSnap
  /\ PredictorsIdle
  /\ ServingIdle

\* self._extract_customer_features(data, 0, observation_days) 
ExtractFeatures ==
  LET start_date == 0
      end_date == timedelta_days(config.observation_days)
      r == extract_customer_features(data, start_date, end_date)
  IN /\ extract_call.status = "idle"
     /\ extract_call' = [status |-> IF r.exc = "none" THEN "returned" ELSE "raised",
                         start_date |-> start_date, end_date |-> end_date,
                         exc |-> r.exc, value |-> r.value]
     /\ UNCHANGED <<config, data, table_call, snap, predictorVars, servingVars>>

NextExtract == ExtractFeatures

SpecExtract == InitExtract /\ [][NextExtract]_vars

-----------------------------------------------------------------------------
(* Direct calls of feature_engineering beside _extract_customer_features *)

\* one event of every kind on the first day of the window
FirstDayEvents(cfg) == {e \in SliceEvents(cfg) : e.timestamp = 0}

\* the value an instance gives each raw signal, in the order of RAW
RawValues == <<Num(1), Num(0), Num(2), Num(1), Num(0), Num(3), Num(5), Num(38)>>

\* the instance that has the raw signals at the positions keep
RawInstance(keep) ==
  AtPositions([k \in 1..Len(RAW) |-> <<RAW[k], RawValues[k]>>], keep)

\* every subset of the 8 raw signals as one instance
RawInstances == {RawInstance(keep) : keep \in SUBSET (1..Len(RAW))}

\* the frames feature_engineering is given: one row with any subset of the
\* signals, and two rows whose instances have different signals
RawBatches ==
  {<<inst>> : inst \in RawInstances}
  \cup
  [1..2 -> {RawInstance(1..Len(RAW)), RawInstance({3}), RawInstance({6, 8}),
            << <<"total_sessions", Num(0)>>, <<"total_spent_usd", Num(0)>> >>}]

InitFeatures ==
  /\ config \in ExtractConfigs
  /\ data \in {<<>>} \cup {<<e>> : e \in FirstDayEvents(config)}
  /\ extract_call = NoExtract
  /\ table_call = NoTable
  /\ snap = NoSnap
  /\ PredictorsIdle
  /\ ServingIdle

\* feature_engineering(pd.DataFrame(instances)), the result kept in the
\* frame of the first task
EngineerFeatures(instances) ==
  LET fe == feature_engineering(DataFrame(instances))
  IN /\ tasks[1].pc = "idle"
     /\ tasks' = [tasks EXCEPT ![1] =
                    [NoTask EXCEPT !.pc = IF fe.exc = "none" THEN "returned"
                                          ELSE "raised",
                                   !.exc = fe.exc,
                                   !.instances = instances,
                                   !.df = fe.value,
                                   !.engineered = (fe.exc = "none")]]
     /\ UNCHANGED <<pipelineVars, predictorVars, backend, ml, legacy, disk,
                    align_call, load_call>>

NextFeatures ==
  \/ ExtractFeatures
  \/ \E instances \in RawBatches : EngineerFeatures(instances)

SpecFeatures == InitFeatures /\ [][NextFeatures]_vars

-----------------------------------------------------------------------------
(* Calls of build_training_table on an event table *)

\* no gap and a gap of one day
TableConfigs == {TemporalConfig(1, 0, 1, 1), TemporalConfig(1, 1, 1, 1)}

TableTimes == 0..5

\* an event of either customer at every tick: a purchase at the even ticks,
\* a view at the odd ones
TableEvents ==
  {e \in [timestamp : TableTimes,
          customer_id : Customers,
          event_type : {"purchase", "view"},
          value : {10},
          product_category : {"books"}] :
     e.event_type = IF e.timestamp % 2 = 0 THEN "purchase" ELSE "view"}

\* a cutoff at midnight and one inside a day
Cutoffs == {2, 3}

Init ==
  /\ config \in TableConfigs
  /\ data \in SeqsUpTo(TableEvents, MaxEvents)
  /\ extract_call = NoExtract
  /\ table_call = NoTable
  /\ snap = NoSnap
  /\ PredictorsIdle
  /\ ServingIdle

\* self.build_training_table(data, cutoff_date)
BuildTrainingTable(cutoff_date) ==
  LET r == build_training_table(data, cutoff_date)
  IN /\ table_call.status = "idle"
     /\ table_call' = [status |-> IF r.exc = "none" THEN "returned" ELSE "raised",
                       cutoff_date |-> cutoff_date, exc |-> r.exc,
                       features |-> r.features, labels |-> r.labels,
                       customer_ids |-> r.customer_ids, locals |-> r.locals]
     /\ UNCHANGED <<config, data, extract_call, snap, predictorVars, servingVars>>

Next == \E cutoff_date \in Cutoffs : BuildTrainingTable(cutoff_date)

Spec == Init /\ [][Next]_vars

-----------------------------------------------------------------------------
(* Calls of build_training_table with observation windows of several days *)

\* cutoffs at midnight and inside a day, with windows that start before the
\* first event or after it
RowCutoffs == {4, 5, 6}

\* the events of one customer at every tick, and one event of the other
RowEvents == {e \in TableEvents : e.customer_id = "A" \/ e.timestamp = 1}

InitRows ==
  /\ config \in ExtractConfigs
  /\ data \in SeqsUpTo(RowEvents, MaxEvents)
  /\ extract_call = NoExtract
  /\ table_call = NoTable
  /\ snap = NoSnap
  /\ PredictorsIdle
  /\ ServingIdle

NextRows == \E cutoff_date \in RowCutoffs : BuildTrainingTable(cutoff_date)

SpecRows == InitRows /\ [][NextRows]_vars

-----------------------------------------------------------------------------
(* Calls of create_multiple_snapshots, one loop iteration to the step *)

\* steps of a day, of two days and of a fortnight
SnapConfigs ==
  {TemporalConfig(1, 0, 1, 1), TemporalConfig(1, 0, 1, 2), TemporalConfig(1, 0, 1, 14)}

\* the first day, and both halves of the second
SnapTimes == {0, 2, 3}

SnapEvents ==
  [timestamp : SnapTimes,
   customer_id : Customers,
   event_type : {"view"},
   value : {10},
   product_category : {"books"}]

\* <<start_date, end_date>> in days; the last is 2024-01-01 .. 2024-03-01
RangesInDays == {<<1, 4>>, <<2, 1>>, <<0, 60>>}

\* the number of cutoffs a range holds
PlannedCount(start_date, end_date) ==
  IF start_date > end_date THEN 0
  ELSE (end_date - start_date) \div timedelta_days(config.step_days) + 1

InitSnap ==
  /\ config \in SnapConfigs
  /\ data \in SeqsUpTo(SnapEvents, MaxEvents)
  /\ extract_call = NoExtract
  /\ table_call = NoTable
  /\ snap = NoSnap
  /\ PredictorsIdle
  /\ ServingIdle

\* self.create_multiple_snapshots(data, start_date, end_date): entry
CreateMultipleSnapshots(start_date, end_date) ==
  /\ snap.pc # "loop"
  /\ PlannedCount(start_date, end_date) <= MaxCutoffs
  /\ snap' = [NoSnap EXCEPT
                !.pc = "loop",
                !.start_date = start_date,
                !.end_date = end_date,
                !.current_date = start_date,
                !.prior = IF snap.pc = "idle" THEN NoPlan
                          ELSE [called |-> TRUE, start_date |-> snap.start_date,
                                end_date |-> snap.end_date, visited |-> snap.visited]]
  /\ UNCHANGED <<config, data, extract_call, table_call, predictorVars, servingVars>>

\* the loop body with the observation window cut out of the caller's table
\* in place instead of out of a copy
SnapshotIterationInPlace ==
  /\ snap.pc = "loop"
  /\ loop_continues(snap.current_date, snap.end_date)
  /\ LET r == build_training_table(data, snap.current_date)
         kept == r.exc = "none" /\ Len(r.features) > 0
     IN /\ snap' = [snap EXCEPT
                      !.all_features =
                         IF kept THEN Append(@, tag_snapshot(r.features, snap.current_date))
                         ELSE @,
                      !.all_labels = IF kept THEN Append(@, r.labels) ELSE @,
                      !.all_ids = IF kept THEN Append(@, r.customer_ids) ELSE @,
                      !.snapshot_count = IF kept THEN @ + 1 ELSE @,
                      !.visited = Append(@, snap.current_date),
                      !.current_date = next_date(snap.current_date)]
        /\ data' = observation_data(data, r.locals.boundaries)
  /\ UNCHANGED <<config, extract_call, table_call, predictorVars, servingVars>>

\* one pass through the body of the while loop
SnapshotIteration ==
  /\ snap.pc = "loop"
  /\ loop_continues(snap.current_date, snap.end_date)
  /\ LET r == build_training_table(data, snap.current_date)
         kept == r.exc = "none" /\ Len(r.features) > 0
     IN snap' = [snap EXCEPT
                   !.all_features =
                      IF kept THEN Append(@, tag_snapshot(r.features, snap.current_date))
                      ELSE @,
                   !.all_labels = IF kept THEN Append(@, r.labels) ELSE @,
                   !.all_ids = IF kept THEN Append(@, r.customer_ids) ELSE @,
                   !.snapshot_count = IF kept THEN @ + 1 ELSE @,
                   !.visited = Append(@, snap.current_date),
                   !.current_date = next_date(snap.current_date)]
  /\ UNCHANGED <<config, data, extract_call, table_call, predictorVars, servingVars>>

\* after the loop: raise ValueError, or concatenate and return
SnapshotExit ==
  /\ snap.pc = "loop"
  /\ ~loop_continues(snap.current_date, snap.end_date)
  /\ snap' = IF no_valid_snapshots(snap.all_features)
             THEN [snap EXCEPT !.pc = "raised", !.exc = "ValueError"]
             ELSE [snap EXCEPT
                     !.pc = "returned",
                     !.combined_features = pd_concat(snap.all_features),
                     !.combined_labels = pd_concat(snap.all_labels),
                     !.combined_ids = pd_concat(snap.all_ids)]
  /\ UNCHANGED <<config, data, extract_call, table_call, predictorVars, servingVars>>

NextSnap ==
  \/ \E r \in RangesInDays :
       CreateMultipleSnapshots(timedelta_days(r[1]), timedelta_days(r[2]))
  \/ SnapshotIteration
  \/ SnapshotExit

SpecSnap == InitSnap /\ [][NextSnap]_vars

\* The loop and the code after it are straight-line synchronous code: a call
\* that has been entered keeps running.
\* The event tables are the empty one and those of a single event: how long
\* the loop runs depends on the range and the step alone.
InitSnapFair ==
  /\ config \in SnapConfigs
  /\ data \in {<<>>} \cup {<<e>> : e \in SnapEvents}
  /\ extract_call = NoExtract
  /\ table_call = NoTable
  /\ snap = NoSnap
  /\ PredictorsIdle
  /\ ServingIdle

\* the loop test holds: the body of the loop is what runs next
IterationEnabled ==
  snap.pc = "loop" /\ loop_continues(snap.current_date, snap.end_date)

\* Weak fairness of the loop body and of the code after the loop.  Every
\* SnapshotIteration step changes snap.visited, so ENABLED of the step is
\* IterationEnabled, and WF_vars(SnapshotIteration) is written with it.
SpecSnapFair ==
  /\ InitSnapFair
  /\ [][NextSnap]_vars
  /\ ([]<>~IterationEnabled \/ []<><<SnapshotIteration>>_vars)
  /\ WF_vars(SnapshotExit)

-----------------------------------------------------------------------------
(* Calls of train_model, predict_churn_probability, get_feature_importance, *)
(* save_model and load_model on two ChurnPredictor instances                *)

InitPredictor ==
  /\ config = DefaultConfig
  /\ data = <<>>
  /\ extract_call = NoExtract
  /\ table_call = NoTable
  /\ snap = NoSnap
  /\ PredictorsIdle
  /\ ServingIdle

\* the record of a call of instance i
Called(name, i, exc, features, filepath, value, completes) ==
  [name |-> name, self |-> i, exc |-> exc, features |-> features,
   filepath |-> filepath, value |-> value, before |-> predictors[i],
   files_before |-> files, ready_before |-> predictor_call.ready[i],
   ready |-> [predictor_call.ready EXCEPT ![i] = @ \/ completes],
   saved |-> predictor_call.saved,
   count |-> predictor_call.count + 1]

\* predictors[i].train_model(features, labels)
TrainModel(i, features, fails_at, ranking) ==
  LET r == train_model(predictors[i], features, fails_at, ranking)
  IN /\ predictor_call.count < MaxOps
     /\ predictors' = [predictors EXCEPT ![i] = r.self]
     /\ predictor_call' =
          Called("train_model", i, r.exc, features, "", None, r.exc = "none")
     /\ UNCHANGED <<files, pipelineVars, servingVars>>

\* predictors[i].predict_churn_probability(features)
PredictChurnProbability(i, features) ==
  LET r == predict_churn_probability(predictors[i], features)
  IN /\ predictor_call.count < MaxOps
     /\ predictor_call' =
          Called("predict_churn_probability", i, r.exc, features, "", r.value, FALSE)
     /\ UNCHANGED <<predictors, files, pipelineVars, servingVars>>

\* predictors[i].get_feature_importance()
GetFeatureImportance(i) ==
  LET r == get_feature_importance(predictors[i], 10)
  IN /\ predictor_call.count < MaxOps
     /\ predictor_call' =
          Called("get_feature_importance", i, r.exc, NoFrame, "", r.value, FALSE)
     /\ UNCHANGED <<predictors, files, pipelineVars, servingVars>>

\* predictors[i].save_model(filepath)
SaveModel(i, filepath) ==
  LET r == save_model(predictors[i])
  IN /\ predictor_call.count < MaxOps
     /\ files' = IF r.exc = "none" THEN [files EXCEPT ![filepath] = r.file] ELSE files
     /\ predictor_call' =
          [Called("save_model", i, r.exc, NoFrame, filepath, None, FALSE) EXCEPT
             !.saved = IF r.exc = "none"
                       THEN [@ EXCEPT ![filepath] = Some(predictors[i])]
                       ELSE @]
     /\ UNCHANGED <<predictors, pipelineVars, servingVars>>

\* predictors[i].load_model(filepath)
LoadModel(i, filepath) ==
  LET r == load_model(predictors[i], files[filepath])
  IN /\ predictor_call.count < MaxOps
     /\ predictors' = [predictors EXCEPT ![i] = r.self]
     /\ predictor_call' =
          Called("load_model", i, r.exc, NoFrame, filepath, None, r.exc = "none")
     /\ UNCHANGED <<files, pipelineVars, servingVars>>

NextPredictor ==
  \/ \E i \in Instances, features \in Frames :
       \/ \E fails_at \in NameSet(TrainSteps) :
            TrainModel(i, features, fails_at, drop_snapshot_date(features.columns))
       \/ \E ranking \in Rankings(drop_snapshot_date(features.columns)) :
            TrainModel(i, features, "none", ranking)
  \/ \E i \in Instances, features \in Frames : PredictChurnProbability(i, features)
  \/ \E i \in Instances : GetFeatureImportance(i)
  \/ \E i \in Instances, filepath \in Paths : SaveModel(i, filepath)
  \/ \E i \in Instances, filepath \in Paths : LoadModel(i, filepath)

SpecPredictor == InitPredictor /\ [][NextPredictor]_vars

-----------------------------------------------------------------------------
(* build_training_table and create_multiple_snapshots on a predictor that  *)
(* has been through a train_model call                                     *)

\* the first predictor untouched, or after one train_model call that
\* completed or raised part-way; the call is the last one recorded
TrainedOnce ==
  {[predictors |-> NewPredictors, call |-> NoCall]}
  \cup
  {LET r == train_model(NewPredictors[1], features, fails_at, ranking)
   IN [predictors |-> [NewPredictors EXCEPT ![1] = r.self],
       call |-> [NoCall EXCEPT
                   !.name = "train_model", !.exc = r.exc, !.features = features,
                   !.ready = [@ EXCEPT ![1] = (r.exc = "none")],
                   !.count = 1]] :
     features \in {f \in Frames : f.name = "january"},
     fails_at \in NameSet(TrainSteps) \cup {"none"},
     ranking \in {<<"recency_days", "frequency">>}}

InitFrame ==
  /\ config \in SnapConfigs
  /\ data \in {<<>>} \cup {<<e>> : e \in SnapEvents}
  /\ extract_call = NoExtract
  /\ table_call = NoTable
  /\ snap = NoSnap
  /\ \E p \in TrainedOnce :
       /\ predictors = p.predictors
       /\ predictor_call = p.call
  /\ files = NoFiles
  /\ ServingIdle

NextFrame ==
  \/ \E cutoff_date \in Cutoffs : BuildTrainingTable(cutoff_date)
  \/ \E r \in RangesInDays :
       CreateMultipleSnapshots(timedelta_days(r[1]), timedelta_days(r[2]))
  \/ SnapshotIteration
  \/ SnapshotExit

SpecFrame == InitFrame /\ [][NextFrame]_vars

-----------------------------------------------------------------------------
(* Direct calls of _align_columns on small frames *)

\* the name lists a feature order or a model can hold
AlignOrders ==
  {<<"frequency", "recency_days">>,
   <<"recency_days", "frequency">>,
   <<"monetary", "frequency", "recency_days">>,
   <<"frequency", "days_active", "recency_days">>,
   <<"monetary">>}

\* the contents of feature_order.json: no file, a list (an empty one too), a
\* dict with "features", a dict without
AlignJsons ==
  {None, Some(JsonList(<<>>)), Some(JsonDict(None)),
   Some(JsonDict(Some(<<"recency_days", "frequency">>)))}
  \cup {Some(JsonList(order)) : order \in AlignOrders}

\* the globals: nothing cached, or the order of a bundle cached
AlignGlobals ==
  {fresh_globals,
   [fresh_globals EXCEPT !._feature_order = Some(<<"recency_days", "monetary">>),
                         !._bundled_meta_loaded = TRUE]}

\* estimators that declare names (as feature_names_in_ or on the booster),
\* and estimators that declare a feature count only, or nothing
AlignModels ==
  {Estimator(TRUE, "works", Some(order), None, Some(Len(order))) : order \in AlignOrders}
  \cup {Estimator(TRUE, "works", None, Some(<<"frequency", "monetary">>), None)}
  \cup {Estimator(TRUE, "works", None, None, n) : n \in {None, Some(2), Some(4)}}

\* the columns of the frames aligned
AlignColumns ==
  {<<>>,
   <<"recency_days">>,
   <<"recency_days", "frequency">>,
   <<"frequency", "total_sessions", "recency_days">>,
   <<"monetary", "recency_days", "total_sessions", "frequency">>,
   <<"monetary", "recency_days", "total_sessions", "frequency", "days_active">>}

\* a frame of n rows whose cells are all different and none 0
AlignFrame(columns, n) ==
  [columns |-> columns,
   rows |-> [i \in 1..n |-> [c \in 1..Len(columns) |-> Num(10 * i + c)]]]

InitAlign ==
  /\ config = DefaultConfig
  /\ data = <<>>
  /\ extract_call = NoExtract
  /\ table_call = NoTable
  /\ snap = NoSnap
  /\ PredictorsIdle
  /\ backend = "integrated"
  /\ legacy = legacy_globals
  /\ tasks = [t \in Tasks |-> NoTask]
  /\ disk \in {[NoDisk EXCEPT !.FEATURE_ORDER_PATH = json] : json \in AlignJsons}
  /\ load_call = NoLoad
  /\ ml \in AlignGlobals
  /\ align_call \in
       {[NoAlign EXCEPT !.df = AlignFrame(columns, n), !.model = model] :
          columns \in AlignColumns, n \in 1..MaxRows, model \in AlignModels}

\* X, as_numpy = _align_columns(df, model)
AlignColumnsCall ==
  LET r == _align_columns(align_call.df, align_call.model, ml, disk)
  IN /\ align_call.status = "idle"
     /\ align_call' = [align_call EXCEPT
                         !.status = "returned",
                         !.globals = ml,
                         !.X = r.X,
                         !.as_numpy = r.as_numpy,
                         !.names = r.names,
                         !.df_after = r.df]
     /\ ml' = r.globals
     /\ UNCHANGED <<backend, legacy, disk, tasks, load_call, pipelineVars,
                    predictorVars>>

NextAlign == AlignColumnsCall

SpecAlign == InitAlign /\ [][NextAlign]_vars

-----------------------------------------------------------------------------
(* Concurrent calls of predict_churn in one process of either backend *)

\* the estimators an artifact can hold
Named29 == Estimator(TRUE, "works", Some(FEATURES_29), None, Some(29))
Bare29 == Estimator(TRUE, "raises", None, None, Some(29))
Bare31 == Estimator(TRUE, "absent", None, None, Some(31))
Bare27 == Estimator(TRUE, "works", None, None, Some(27))
Shapeless == Estimator(TRUE, "works", None, None, None)
NoPredict == Estimator(FALSE, "absent", None, None, None)

\* the order a bundle or feature_order.json can hold
ShortOrder == <<"added_to_cart", "monetary", "recency_days">>

\* the models directory of the integrated backend
ServeDisks ==
  {[NoDisk EXCEPT !.PRIMARY_MODEL = Some(Named29)],
   [NoDisk EXCEPT !.FALLBACK_MODEL = Some(Dict(<< <<"pipeline", Some(Bare31)>> >>))],
   [NoDisk EXCEPT !.PRIMARY_MODEL = Some(Bare27),
                  !.FALLBACK_MODEL = Some(Named29)],
   [NoDisk EXCEPT !.PRIMARY_MODEL =
                     Some(Dict(<< <<"model", Some(Bare29)>>,
                                  <<"feature_order", Some(FEATURES_29)>> >>)),
                  !.FEATURE_ORDER_PATH = Some(JsonList(ShortOrder))],
   [NoDisk EXCEPT !.PRIMARY_MODEL = Some(Shapeless),
                  !.FEATURE_ORDER_PATH = Some(JsonList(ShortOrder))],
   [NoDisk EXCEPT !.PRIMARY_MODEL =
                     Some(Dict(<< <<"scaler", Some(Shapeless)>> >>))],
   [NoDisk EXCEPT !.PRIMARY_MODEL = Some(NoPredict)],
   NoDisk}

\* the models directory of the legacy backend
LegacyDisks ==
  {[NoDisk EXCEPT !.PIPELINE_PATH = Some(Estimator(TRUE, "works", None, None, Some(3))),
                  !.LEGACY_FEATURE_ORDER_PATH = Some(<<"total_sessions", "added_to_cart",
                                                       "total_spent_usd">>)],
   [NoDisk EXCEPT !.PIPELINE_PATH = Some(Estimator(TRUE, "raises", None, None, Some(3))),
                  !.LEGACY_FEATURE_ORDER_PATH = Some(<<"total_sessions", "added_to_cart",
                                                       "total_spent_usd">>)],
   [NoDisk EXCEPT !.PIPELINE_PATH = Some(Estimator(TRUE, "absent", None, None, Some(2))),
                  !.LEGACY_FEATURE_ORDER_PATH = Some(<<"added_to_cart", "plan">>)],
   [NoDisk EXCEPT !.PIPELINE_PATH = Some(Estimator(TRUE, "works", None, None, Some(3)))],
   NoDisk}

\* the instances of a batch: all 8 raw signals; one of them and a key that
\* is no signal; one whose total_sessions is not a number
ServeInstances ==
  {<< <<"added_to_wishlist", Num(1)>>, <<"removed_from_wishlist", Num(0)>>,
      <<"added_to_cart", Num(2)>>, <<"removed_from_cart", Num(1)>>,
      <<"cart_quantity_updated", Num(0)>>, <<"total_sessions", Num(3)>>,
      <<"days_since_last_activity", Num(5)>>, <<"total_spent_usd", Num(38)>> >>,
   << <<"plan", Num(1)>>, <<"added_to_cart", Num(1)>> >>,
   << <<"added_to_cart", Num(4)>>, <<"total_sessions", Text>> >>}

InitServe ==
  /\ config = DefaultConfig
  /\ data = <<>>
  /\ extract_call = NoExtract
  /\ table_call = NoTable
  /\ snap = NoSnap
  /\ PredictorsIdle
  /\ backend \in {"integrated", "legacy"}
  /\ disk \in IF backend = "integrated" THEN ServeDisks ELSE LegacyDisks
  /\ ml = fresh_globals
  /\ legacy = legacy_globals
  /\ tasks = [t \in Tasks |-> NoTask]
  /\ align_call = NoAlign
  /\ load_call = NoLoad

\* task t calls predict_churn(instances) and runs to its first await, its
\* return or its raise
PredictChurn(t, instances) ==
  LET r == predict_churn_start(instances, ml, disk)
  IN /\ backend = "integrated"
     /\ tasks[t].pc = "idle"
     /\ tasks' = [tasks EXCEPT ![t] = r.task]
     /\ ml' = r.globals
     /\ UNCHANGED <<backend, legacy, disk, align_call, load_call, pipelineVars, predictorVars>>

\* task t calls the legacy predict_churn(instances) and runs to its first
\* await or its raise
LegacyPredictChurn(t, instances) ==
  LET r == legacy_predict_churn_start(instances, legacy, disk)
  IN /\ backend = "legacy"
     /\ tasks[t].pc = "idle"
     /\ tasks' = [tasks EXCEPT ![t] = r.task]
     /\ legacy' = r.globals
     /\ UNCHANGED <<backend, ml, disk, align_call, load_call, pipelineVars, predictorVars>>

\* the thread running model.predict for task t ends and the task resumes
PredictReturns(t) ==
  /\ tasks[t].pc = "await_predict"
  /\ tasks' = [tasks EXCEPT ![t] = IF backend = "integrated"
                                    THEN predict_churn_predicted(tasks[t])
                                    ELSE legacy_predict_churn_predicted(tasks[t])]
  /\ UNCHANGED <<backend, ml, legacy, disk, align_call, load_call, pipelineVars, predictorVars>>

\* the thread running model.predict_proba for task t ends and the task resumes
PredictProbaReturns(t) ==
  /\ tasks[t].pc = "await_proba"
  /\ tasks' = [tasks EXCEPT ![t] = IF backend = "integrated"
                                    THEN predict_churn_probabilities(tasks[t])
                                    ELSE legacy_predict_churn_probabilities(tasks[t])]
  /\ UNCHANGED <<backend, ml, legacy, disk, align_call, load_call, pipelineVars, predictorVars>>

\* the batches a task sends: the longer ones come from task 1
Batches(t) == SeqsUpTo(ServeInstances, IF t = 1 THEN MaxBatch ELSE MaxOtherBatch)

NextServe ==
  \/ \E t \in Tasks : \E instances \in Batches(t) : PredictChurn(t, instances)
  \/ \E t \in Tasks : \E instances \in Batches(t) : LegacyPredictChurn(t, instances)
  \/ \E t \in Tasks : PredictReturns(t)
  \/ \E t \in Tasks : PredictProbaReturns(t)

SpecServe == InitServe /\ [][NextServe]_vars

-----------------------------------------------------------------------------
(* Calls of the loaders of app/ml.py in any order, beside predict_churn *)

InitLoad == InitServe

\* what a loader call leaves in load_call
Loaded(name, exc, value) == [name |-> name, exc |-> exc, value |-> value]

\* the frame of the serving state the loader calls leave alone
LoadFrame == <<backend, disk, tasks, align_call, pipelineVars, predictorVars>>

\* _load_model()
LoadModelCall ==
  LET r == _load_model(ml, disk)
  IN /\ backend = "integrated"
     /\ ml.reads < MaxReads
     /\ ml' = r.globals
     /\ load_call' = Loaded("_load_model", r.exc, r.model)
     /\ UNCHANGED <<legacy, LoadFrame>>

\* _load_feature_order()
LoadFeatureOrderCall ==
  LET g == _load_feature_order(ml, disk)
  IN /\ backend = "integrated"
     /\ ml.reads < MaxReads
     /\ ml' = g
     /\ load_call' = Loaded("_load_feature_order", "none", g._feature_order)
     /\ UNCHANGED <<legacy, LoadFrame>>

\* load_pipeline() of the integrated backend
LoadPipeline ==
  LET r == load_pipeline_integrated(ml, disk)
  IN /\ backend = "integrated"
     /\ ml.reads < MaxReads
     /\ ml' = r.globals
     /\ load_call' = Loaded("load_pipeline", r.exc, r.value)
     /\ UNCHANGED <<legacy, LoadFrame>>

\* get_pipeline()
GetPipeline ==
  LET r == get_pipeline(ml, disk)
  IN /\ backend = "integrated"
     /\ ml.reads < MaxReads
     /\ ml' = r.globals
     /\ load_call' = Loaded("get_pipeline", r.exc, r.model)
     /\ UNCHANGED <<legacy, LoadFrame>>

\* get_expected_features()
GetExpectedFeatures ==
  LET r == get_expected_features(ml, disk)
  IN /\ backend = "integrated"
     /\ ml.reads < MaxReads
     /\ ml' = r.globals
     /\ load_call' = Loaded("get_expected_features", r.exc, r.value)
     /\ UNCHANGED <<legacy, LoadFrame>>

\* pipeline_ready()
PipelineReady ==
  /\ backend = "integrated"
  /\ load_call' = Loaded("pipeline_ready", "none", Some(pipeline_ready(ml)))
  /\ UNCHANGED <<ml, legacy, LoadFrame>>

\* load_pipeline() of the legacy backend
LegacyLoadPipeline ==
  LET r == load_pipeline(legacy, disk)
  IN /\ backend = "legacy"
     /\ legacy' = r.globals
     /\ load_call' = Loaded("load_pipeline", r.exc,
                            IF r.exc = "none"
                            THEN Some(<<r.globals.pipeline, r.globals.FEATURE_ORDER>>)
                            ELSE None)
     /\ UNCHANGED <<ml, LoadFrame>>

\* build_dataframe(instances) of the legacy backend
LegacyBuildDataframe(instances) ==
  LET r == load_pipeline(legacy, disk)
  IN /\ backend = "legacy"
     /\ legacy' = r.globals
     /\ load_call' = Loaded("build_dataframe", r.exc,
                            IF r.exc = "none"
                            THEN Some(build_dataframe(instances,
                                                      r.globals.FEATURE_ORDER))
                            ELSE None)
     /\ UNCHANGED <<ml, LoadFrame>>

\* the batches of one instance
SingleBatches == {<<inst>> : inst \in ServeInstances}

NextLoad ==
  \/ LoadModelCall
  \/ LoadFeatureOrderCall
  \/ LoadPipeline
  \/ GetPipeline
  \/ GetExpectedFeatures
  \/ PipelineReady
  \/ LegacyLoadPipeline
  \/ \E instances \in SingleBatches : LegacyBuildDataframe(instances)
  \/ \E instances \in SingleBatches : PredictChurn(1, instances)
  \/ \E instances \in SingleBatches : LegacyPredictChurn(1, instances)
  \/ PredictReturns(1)
  \/ PredictProbaReturns(1)

SpecLoad == InitLoad /\ [][NextLoad]_vars

-----------------------------------------------------------------------------
(* Properties of build_training_table, under Spec *)

\* the claims' own reading of the two windows of a cutoff, in ticks
InObservationWindow(ts, cutoff) ==
  cutoff - config.observation_days * TicksPerDay <= ts /\ ts < cutoff

InLabelWindow(ts, cutoff) ==
  /\ cutoff + config.gap_days * TicksPerDay <= ts
  /\ ts < cutoff + (config.gap_days + config.label_days) * TicksPerDay

ObservedCustomers(cutoff) ==
  {data[i].customer_id :
     i \in {j \in 1..Len(data) : InObservationWindow(data[j].timestamp, cutoff)}}

ActiveCustomers(cutoff) ==
  {data[i].customer_id :
     i \in {j \in 1..Len(data) : InLabelWindow(data[j].timestamp, cutoff)}}

ExpectedLabel(customer, cutoff) ==
  IF customer \in ActiveCustomers(cutoff) THEN 0 ELSE 1

\* C1: for every cutoff and every configuration with gap_days >= 0 the
\* boundaries build_training_table computes have observation_end <=
\* label_start, no row of the event table passes both the observation filter
\* and the label filter, and no timestamp at all (the cutoff itself included)
\* passes both.
C1_WindowsNeverOverlap ==
  table_call.status # "idle" =>
    LET b == table_call.locals.boundaries
    IN /\ b.observation_end <= b.label_start
       /\ \A i \in 1..Len(data) :
            ~(table_call.locals.obs_rows[i] /\ table_call.locals.label_rows[i])
       /\ \A ts \in (b.observation_start - 1)..(b.label_end + 1) :
            ~(observation_mask(ts, b) /\ label_mask(ts, b))

\* C1 witness: with gap_days = 0 a table was built from a log holding an event
\* stamped exactly at the cutoff; that event is a label row and no
\* observation row.
C1_Witness ==
  /\ table_call.status = "returned"
  /\ config.gap_days = 0
  /\ \E i \in 1..Len(data) :
       /\ data[i].timestamp = table_call.cutoff_date
       /\ table_call.locals.label_rows[i]
       /\ ~table_call.locals.obs_rows[i]

\* the log with every event outside [cutoff - observation_days, cutoff) removed
ObservedOnly(df, cutoff) ==
  SelectSeq(df, LAMBDA e : InObservationWindow(e.timestamp, cutoff))

\* C2: the feature rows of a cutoff depend only on the events stamped in
\* [cutoff - observation_days, cutoff).  Two logs holding the same events in
\* that range both reduce to the same stripped log, so the claim is that every
\* log yields the outcome (the rows, or the exception) that its stripped log
\* yields: whatever lies before the observation start, at or after the
\* cutoff, or in the label window changes no returned feature row.
C2_FeaturesSeeOnlyObservation ==
  table_call.status # "idle" =>
    LET stripped == build_training_table(ObservedOnly(data, table_call.cutoff_date),
                                         table_call.cutoff_date)
    IN /\ table_call.exc = stripped.exc
       /\ table_call.features = stripped.features

\* C2 witness: a table was returned from a log that also holds an event before
\* the observation start and an event in the label window.
C2_Witness ==
  /\ table_call.status = "returned"
  /\ \E i \in 1..Len(data) :
       data[i].timestamp < table_call.locals.boundaries.observation_start
  /\ \E i \in 1..Len(data) : InLabelWindow(data[i].timestamp, table_call.cutoff_date)

\* C3: every customer with an event in the observation window gets label 0
\* exactly when the customer has an event, of whatever type, stamped in
\* [label_start, label_end), and label 1 otherwise; events in the gap or at
\* or after label_end do not make the customer active.
C3_LabelIsAbsenceFromLabelWindow ==
  table_call.status = "returned" =>
    /\ \A c \in ObservedCustomers(table_call.cutoff_date) :
         \E i \in 1..Len(table_call.customer_ids) : table_call.customer_ids[i] = c
    /\ \A i \in 1..Len(table_call.labels) :
         table_call.labels[i] =
           ExpectedLabel(table_call.customer_ids[i], table_call.cutoff_date)

\* C3 witness: one table holds a customer labelled 0 and a customer labelled 1.
C3_Witness ==
  /\ table_call.status = "returned"
  /\ \E i, j \in 1..Len(table_call.labels) :
       table_call.labels[i] = 0 /\ table_call.labels[j] = 1

\* the events of one customer inside the observation window of a cutoff
ObservedSlice(customer, cutoff) ==
  SelectSeq(data, LAMBDA e : e.customer_id = customer
                             /\ InObservationWindow(e.timestamp, cutoff))

\* C9: a returned table has exactly one feature row and one label for every
\* distinct customer with an event in the observation window and none for
\* anyone else, and position i of both belongs to the same customer: row i is
\* the record of that customer's observed events and label i is that
\* customer's label.  The call raises only when the window holds no customer.
C9_OneAlignedRowPerCustomer ==
  LET c == table_call.cutoff_date
      ids == table_call.customer_ids
  IN /\ table_call.status = "returned" =>
          /\ Len(table_call.features) = Len(ids)
          /\ Len(table_call.labels) = Len(ids)
          /\ \A i, j \in 1..Len(ids) : ids[i] = ids[j] => i = j
          /\ {ids[i] : i \in 1..Len(ids)} = ObservedCustomers(c)
          /\ \A i \in 1..Len(ids) :
               /\ table_call.features[i] =
                    extract_customer_features(
                      ObservedSlice(ids[i], c),
                      c - config.observation_days * TicksPerDay, c).value
               /\ table_call.labels[i] = ExpectedLabel(ids[i], c)
     /\ table_call.status = "raised" => ObservedCustomers(c) = {}

\* C9 witness: a table of two different rows, one for each customer, built
\* from a window in which one of them has two events.
C9_Witness ==
  /\ table_call.status = "returned"
  /\ Len(table_call.customer_ids) = 2
  /\ table_call.features[1] # table_call.features[2]
  /\ \E c \in Customers : Len(ObservedSlice(c, table_call.cutoff_date)) = 2

-----------------------------------------------------------------------------
(* Properties of _extract_customer_features, under SpecExtract *)

\* the number of events of a type in the slice
CountOf(type) == Cardinality({i \in 1..Len(data) : data[i].event_type = type})

\* whether the number q = <<num, den>> is n / d
IsQuotient(q, n, d) == q[2] > 0 /\ q[1] * d = n * q[2]

\* C5: called with an empty slice, _extract_customer_features returns the
\* default record: recency_days = config.observation_days, each of the other
\* 28 features 0, and the 29 keys every record of a non-empty slice has.
C5_EmptySliceGivesDefault ==
  extract_call.status # "idle" =>
    /\ extract_call.status = "returned"
    /\ {extract_call.value[i][1] : i \in 1..Len(extract_call.value)}
         = {FEATURES_29[i] : i \in 1..Len(FEATURES_29)}
    /\ Len(extract_call.value) = 29
    /\ data = <<>> =>
         \A i \in 1..Len(extract_call.value) :
           extract_call.value[i][2] =
             IF extract_call.value[i][1] = "recency_days"
             THEN <<config.observation_days, 1>>
             ELSE <<0, 1>>

\* C5 witness: the call on the empty slice has returned.
C5_Witness == extract_call.status = "returned" /\ data = <<>>

RateDenominators ==
  [view_to_cart_rate |-> "view",
   cart_to_purchase_rate |-> "add_to_cart",
   overall_conversion_rate |-> "view",
   wishlist_to_purchase_rate |-> "added_to_wishlist",
   cart_abandon_rate |-> "add_to_cart",
   wishlist_abandon_rate |-> "added_to_wishlist",
   cart_engagement_ratio |-> "add_to_cart"]

\* C6: on a non-empty slice extraction never raises a division error, each of
\* the seven rate features is 0 whenever the count in its denominator is 0,
\* and refund_rate and support_intensity divide by max(count, 1).
C6_RatesSafeOnZeroDenominator ==
  (extract_call.status # "idle" /\ data # <<>>) =>
    /\ extract_call.status = "returned"
    /\ \A k \in DOMAIN RateDenominators :
         CountOf(RateDenominators[k]) = 0 => Get(extract_call.value, k) = <<0, 1>>
    /\ IsQuotient(Get(extract_call.value, "refund_rate"),
                  CountOf("refund"),
                  IF CountOf("purchase") >= 1 THEN CountOf("purchase") ELSE 1)
    /\ IsQuotient(Get(extract_call.value, "support_intensity"),
                  CountOf("support_ticket"), Len(data))

\* C6 witness: a record was returned for a slice with a removal from the cart
\* and a refund, yet no addition to the cart and no purchase.
C6_Witness ==
  /\ extract_call.status = "returned"
  /\ CountOf("removed_from_cart") > 0 /\ CountOf("add_to_cart") = 0
  /\ CountOf("refund") > 0 /\ CountOf("purchase") = 0
  /\ Get(extract_call.value, "cart_abandon_rate") = <<0, 1>>
  /\ Get(extract_call.value, "refund_rate") = <<1, 1>>

PurchaseRows == {i \in 1..Len(data) : data[i].event_type = "purchase"}

RECURSIVE SumOver(_)
SumOver(rows) ==
  IF rows = {} THEN 0
  ELSE LET i == CHOOSE j \in rows : TRUE IN data[i].value + SumOver(rows \ {i})

\* C7: for a slice with a purchase, frequency is the number of purchases,
\* monetary the sum of their values, max_order_value the largest of them,
\* avg_order_value monetary / frequency, and recency_days the whole days from
\* the latest purchase to window_end.  All five are stated on the purchase
\* rows alone: no other event enters them.
C7_RfmFromPurchasesOnly ==
  (extract_call.status # "idle" /\ PurchaseRows # {}) =>
    LET v == extract_call.value
        r == Get(v, "recency_days")
        latest == CHOOSE i \in PurchaseRows :
                    \A j \in PurchaseRows : data[j].timestamp <= data[i].timestamp
        largest == CHOOSE i \in PurchaseRows :
                     \A j \in PurchaseRows : data[j].value <= data[i].value
        since == extract_call.end_date - data[latest].timestamp
    IN /\ extract_call.status = "returned"
       /\ Get(v, "frequency") = <<Cardinality(PurchaseRows), 1>>
       /\ Get(v, "monetary") = <<SumOver(PurchaseRows), 1>>
       /\ Get(v, "max_order_value") = <<data[largest].value, 1>>
       /\ IsQuotient(Get(v, "avg_order_value"),
                     SumOver(PurchaseRows), Cardinality(PurchaseRows))
       /\ r[2] = 1
       /\ r[1] * TicksPerDay <= since /\ since < (r[1] + 1) * TicksPerDay

\* C7 witness: three purchases of 10, 20 and 30, the latest of them a day or
\* more before window_end, gave frequency 3, monetary 60, average 20, maximum 30.
C7_Witness ==
  /\ extract_call.status = "returned"
  /\ Len(data) = 3
  /\ {data[i].value : i \in PurchaseRows} = {10, 20, 30}
  /\ data[3].timestamp < data[1].timestamp
  /\ Get(extract_call.value, "frequency") = <<3, 1>>
  /\ Get(extract_call.value, "monetary") = <<60, 1>>
  /\ Get(extract_call.value, "avg_order_value") = <<20, 1>>
  /\ Get(extract_call.value, "max_order_value") = <<30, 1>>
  /\ Get(extract_call.value, "recency_days") = <<1, 1>>

\* C8: for every observation window, odd lengths included, activity_trend is
\* the number of events stamped at or after window_start + (window_end -
\* window_start) / 2 less the number stamped before it, and purchase_trend
\* the same difference over the purchases.
C8_TrendSplitsAtMidpoint ==
  (extract_call.status = "returned" /\ data # <<>>) =>
    LET ws == extract_call.start_date
        we == extract_call.end_date
        late(rows) == Cardinality({i \in rows : 2 * (data[i].timestamp - ws) >= we - ws})
        early(rows) == Cardinality({i \in rows : 2 * (data[i].timestamp - ws) < we - ws})
    IN /\ Get(extract_call.value, "activity_trend")
            = <<late(1..Len(data)) - early(1..Len(data)), 1>>
       /\ Get(extract_call.value, "purchase_trend")
            = <<late(PurchaseRows) - early(PurchaseRows), 1>>

-----------------------------------------------------------------------------
(* Properties of create_multiple_snapshots, under SpecSnap *)

\* the cutoffs start_date + k * step_days, k = 0, 1, ..., that are <= end_date
ExpectedCutoffs(start_date, end_date) ==
  LET step == config.step_days * TicksPerDay
      n == IF start_date > end_date THEN 0 ELSE (end_date - start_date) \div step + 1
  IN [k \in 1..n |-> start_date + (k - 1) * step]

SnapDone == snap.pc \in {"returned", "raised"}

\* C4: a call visits exactly the cutoffs start_date + k * step_days that are
\* <= end_date, in increasing order and each once; while it runs, the cutoffs
\* visited so far are the first of them; and a call with the arguments of the
\* call before it visits the cutoffs that call visited.
C4_CutoffsArePlannedSteps ==
  LET expected == ExpectedCutoffs(snap.start_date, snap.end_date)
  IN /\ snap.pc = "loop" =>
          /\ Len(snap.visited) <= Len(expected)
          /\ snap.visited = SubSeq(expected, 1, Len(snap.visited))
     /\ SnapDone => snap.visited = expected
     /\ \A i, j \in 1..Len(snap.visited) :
          /\ snap.visited[i] <= snap.end_date
          /\ i < j => snap.visited[i] < snap.visited[j]
     /\ ( /\ SnapDone
          /\ snap.prior.called
          /\ snap.prior.start_date = snap.start_date
          /\ snap.prior.end_date = snap.end_date )
        => snap.visited = snap.prior.visited

\* C4 witness: with step_days = 14, a second call over day 0 .. day 60 has
\* ended after the five cutoffs of days 0, 14, 28, 42 and 56.
C4_Witness ==
  /\ SnapDone
  /\ config.step_days = 14
  /\ snap.start_date = 0 /\ snap.end_date = 60 * TicksPerDay
  /\ snap.visited = [k \in 1..5 |-> (k - 1) * 14 * TicksPerDay]
  /\ snap.prior.called
  /\ snap.prior.start_date = snap.start_date /\ snap.prior.end_date = snap.end_date

\* the <<cutoff, customer>> pairs a range holds: the planned cutoffs, each
\* with the customers its observation window holds
ExpectedRows ==
  LET cutoffs == ExpectedCutoffs(snap.start_date, snap.end_date)
  IN {p \in {<<cutoffs[k], c>> : k \in 1..Len(cutoffs), c \in Customers} :
        p[2] \in ObservedCustomers(p[1])}

\* C10: the dataset returned holds one batch for every planned cutoff whose
\* observation window holds a customer: its rows are, each once, the
\* <<cutoff, customer>> pairs of those cutoffs; rows are grouped by cutoff in
\* increasing order; every row carries its cutoff as snapshot_date and is the
\* record of its customer's observed events; and the label at position i is
\* the label of the customer and cutoff of feature row i.
C10_BatchesInOrderLabelsAligned ==
  snap.pc = "returned" =>
    LET n == Len(snap.combined_features)
        date(i) == Get(snap.combined_features[i], "snapshot_date")
        id(i) == snap.combined_ids[i]
    IN /\ Len(snap.combined_labels) = n
       /\ snap.snapshot_count = Len(snap.all_features)
       /\ {<<date(i), id(i)>> : i \in 1..n} = ExpectedRows
       /\ n = Cardinality(ExpectedRows)
       /\ \A i, j \in 1..n : i < j => date(i) <= date(j)
       /\ \A i \in 1..n :
            /\ DropKeys(snap.combined_features[i], {"snapshot_date"}) =
                 extract_customer_features(
                   ObservedSlice(id(i), date(i)),
                   date(i) - config.observation_days * TicksPerDay, date(i)).value
            /\ snap.combined_labels[i] = ExpectedLabel(id(i), date(i))

\* C10 witness: a dataset of two batches, returned by a call that also visited
\* a cutoff without customers, in which one customer is labelled 0 and one 1.
C10_Witness ==
  /\ snap.pc = "returned"
  /\ Len(snap.all_features) = 2
  /\ Len(snap.visited) > 2
  /\ \E i, j \in 1..Len(snap.combined_labels) :
       snap.combined_labels[i] = 0 /\ snap.combined_labels[j] = 1

\* the column names of a row, in order
ColumnsOf(row) == [k \in 1..Len(row) |-> row[k][1]]

\* C11: every row of the dataset create_multiple_snapshots returns carries
\* the 29 feature fields and both keys, customer_id and snapshot_date.
\* build_training_table drops customer_id from the rows it returns, so the
\* rows of the dataset carry the 29 fields and snapshot_date only.
C11_RowsCarryFeaturesAndBothKeys ==
  snap.pc = "returned" =>
    \A i \in 1..Len(snap.combined_features) :
      NameSet(ColumnsOf(snap.combined_features[i])) =
        NameSet(FEATURES_29) \cup {"customer_id", "snapshot_date"}

\* C12: a call ends by raising ValueError exactly when no planned cutoff has
\* a customer in its observation window (a range with start_date > end_date
\* included); it raises nothing else; and a cutoff at which
\* build_training_table raised does not end the run: every planned cutoff is
\* still visited and the batches of the other cutoffs are returned.
C12_RaisesIffNoCutoffYieldsRows ==
  /\ SnapDone =>
       /\ (snap.pc = "raised") <=> (ExpectedRows = {})
       /\ (snap.pc = "raised") <=> (snap.exc = "ValueError")
       /\ snap.visited = ExpectedCutoffs(snap.start_date, snap.end_date)
  /\ snap.pc = "returned" =>
       /\ snap.exc = "none"
       /\ Len(snap.all_features) =
            Cardinality({k \in 1..Len(snap.visited) :
                           ObservedCustomers(snap.visited[k]) # {}})
  /\ snap.pc = "loop" => snap.exc = "none"

\* C12 witness: a call has returned a dataset although build_training_table
\* raised at one of its cutoffs, an earlier one than a cutoff that gave rows.
C12_Witness ==
  /\ snap.pc = "returned"
  /\ \E j, k \in 1..Len(snap.visited) :
       /\ j < k
       /\ build_training_table(data, snap.visited[j]).exc # "none"
       /\ build_training_table(data, snap.visited[k]).exc = "none"

-----------------------------------------------------------------------------
(* Properties of training and persistence, under SpecPredictor *)

\* the position of a name in a sequence of names
IndexOf(names, name) == CHOOSE k \in 1..Len(names) : names[k] = name

\* C13: after train_model has succeeded, feature_columns holds the columns of
\* the frame passed in other than snapshot_date, each once and in the order
\* the frame has them; and snapshot_date is in no predictor's feature_columns.
C13_FeatureColumnsDropSnapshotDate ==
  /\ (predictor_call.name = "train_model" /\ predictor_call.exc = "none") =>
       LET given == predictor_call.features.columns
           kept == predictors[predictor_call.self].feature_columns
       IN /\ kept # None
          /\ NameSet(kept[1]) = NameSet(given) \ {"snapshot_date"}
          /\ Len(kept[1]) = Cardinality(NameSet(given) \ {"snapshot_date"})
          /\ \A a, b \in 1..Len(kept[1]) :
               a < b => IndexOf(given, kept[1][a]) < IndexOf(given, kept[1][b])
  /\ \A i \in Instances :
       predictors[i].feature_columns # None =>
         "snapshot_date" \notin NameSet(predictors[i].feature_columns[1])

\* C13 witness: train_model has succeeded on a frame whose first column is
\* snapshot_date, and the two columns after it are the feature columns.
C13_Witness ==
  /\ predictor_call.name = "train_model"
  /\ predictor_call.exc = "none"
  /\ predictor_call.features.columns = <<"snapshot_date", "frequency", "recency_days">>
  /\ predictors[predictor_call.self].feature_columns = Some(<<"frequency", "recency_days">>)

\* C14: predict_churn_probability, get_feature_importance and save_model,
\* called on a predictor on which no train_model or load_model call has
\* completed, raise their "train the model first" ValueError and change
\* neither the predictor nor the files.  train_model assigns self.model
\* before it fits it, so after a train_model that raised in fit or in
\* roc_auc_score the model is not None and the calls go through.
C14_UntrainedCallsRaise ==
  ( /\ predictor_call.name \in
         {"predict_churn_probability", "get_feature_importance", "save_model"}
    /\ ~predictor_call.ready_before )
  => /\ predictor_call.exc \in {MustBeTrained, MustBeTrainedImportance, NoModelToSave}
     /\ predictors[predictor_call.self] = predictor_call.before
     /\ files = predictor_call.files_before

\* C15: after load_model has read a file, the predictor's model, scaler,
\* feature_columns, feature_importance_ and config are those the predictor
\* that saved the file had when it saved it.
C15_SaveThenLoadRestores ==
  (predictor_call.name = "load_model" /\ predictor_call.exc = "none") =>
    LET saved == predictor_call.saved[predictor_call.filepath]
        self == predictors[predictor_call.self]
    IN /\ saved # None
       /\ self.model = saved[1].model
       /\ self.scaler = saved[1].scaler
       /\ self.feature_columns = saved[1].feature_columns
       /\ self.feature_importance_ = saved[1].feature_importance_
       /\ self.config = saved[1].config

\* C15 witness: the second predictor has loaded the file the first one saved
\* after a successful train_model, and its own config has been replaced.
C15_Witness ==
  /\ predictor_call.name = "load_model"
  /\ predictor_call.exc = "none"
  /\ predictor_call.self = 2
  /\ predictor_call.before.config # predictors[2].config
  /\ predictors[2].config = DefaultConfig
  /\ predictors[2].model # None /\ predictors[2].model[1].fitted
  /\ predictors[2].scaler.fitted
  /\ predictors[2].feature_importance_ # None

-----------------------------------------------------------------------------
(* Properties of _align_columns, under SpecAlign *)

\* the persisted feature order as the call finds it: the order cached from a
\* bundle, else the list of feature_order.json, else none
PersistedOrder ==
  LET json == disk.FEATURE_ORDER_PATH
  IN IF align_call.globals._feature_order # None
     THEN align_call.globals._feature_order
     ELSE IF json = None THEN None
     ELSE IF json[1].type = "list" THEN Some(json[1].items)
     ELSE json[1].features

\* the names the model of the call declares, on the estimator or its booster
DeclaredNames ==
  IF align_call.model.feature_names_in_ # None
  THEN align_call.model.feature_names_in_
  ELSE align_call.model.booster_feature_names

\* a feature order exists when it is there and names at least one feature
Exists(order) == order # None /\ Len(order[1]) > 0

InputPosition(name) ==
  CHOOSE c \in 1..Len(align_call.df.columns) : align_call.df.columns[c] = name

\* the columns of the frame handed to the call, as a set
InputColumns == {align_call.df.columns[c] : c \in 1..Len(align_call.df.columns)}

\* C17: when a name list is resolved, the frame _align_columns returns has
\* exactly the resolved names as its columns, in that order; every name
\* absent from the input is a column of zeros, every input column not in the
\* list is dropped, every value of a column present in both is unchanged and
\* the row order is unchanged; the call returns for any combination of
\* missing and extra columns.
C17_AlignedFrame ==
  (align_call.status = "returned" /\ align_call.names # None) =>
    LET names == align_call.names[1]
        X == align_call.X
    IN /\ ~align_call.as_numpy
       /\ X.labels = Some(names)
       /\ Len(X.values) = Len(align_call.df.rows)
       /\ \A i \in 1..Len(X.values) :
            /\ Len(X.values[i]) = Len(names)
            /\ \A k \in 1..Len(names) :
                 X.values[i][k] =
                   IF names[k] \in InputColumns
                   THEN align_call.df.rows[i][InputPosition(names[k])]
                   ELSE Num(0)

\* C17 witness: a call on a frame of two rows returned a frame in which one
\* name was missing from the input, one input column was dropped and two
\* kept columns changed places.
C17_Witness ==
  /\ align_call.status = "returned"
  /\ align_call.names # None
  /\ Len(align_call.X.values) = 2
  /\ \E k \in 1..Len(align_call.names[1]) : align_call.names[1][k] \notin InputColumns
  /\ \E c \in 1..Len(align_call.df.columns) :
       \A k \in 1..Len(align_call.names[1]) :
         align_call.names[1][k] # align_call.df.columns[c]
  /\ \E j, k \in 1..Len(align_call.names[1]) :
       /\ j < k
       /\ align_call.names[1][j] \in InputColumns
       /\ align_call.names[1][k] \in InputColumns
       /\ InputPosition(align_call.names[1][j]) > InputPosition(align_call.names[1][k])
       /\ align_call.X.values[2][j] = align_call.df.rows[2][InputPosition(align_call.names[1][j])]

-----------------------------------------------------------------------------
(* Properties of predict_churn, under SpecServe *)

\* the raw signals of instance i of a batch as feature engineering sees
\* them: the instance's value, NaN when only other instances of the batch
\* have the signal, 0 when none has
RawOf(instances, i) ==
  [name \in {RAW[k] : k \in 1..Len(RAW)} |->
     IF \E k \in 1..Len(instances[i]) : instances[i][k][1] = name
     THEN Get(instances[i], name)
     ELSE IF \E j \in 1..Len(instances) :
               \E k \in 1..Len(instances[j]) : instances[j][k][1] = name
          THEN NaN ELSE Num(0)]

\* the frame of a batch before alignment: one row per instance, in the
\* order of the batch, engineered or as received
FrameOf(task) ==
  IF task.engineered
  THEN [columns |-> FEATURES_29,
        rows |-> [i \in 1..Len(task.instances) |->
                    LET out == engineered(RawOf(task.instances, i))
                    IN [k \in 1..Len(FEATURES_29) |-> Get(out, FEATURES_29[k])]]]
  ELSE DataFrame(task.instances)

\* the rows the model is given for the batch of a task, one per instance
RowsFor(task) ==
  IF backend = "legacy"
  THEN [i \in 1..Len(task.instances) |->
          [k \in 1..Len(legacy.FEATURE_ORDER) |->
             IF \E j \in 1..Len(task.instances[i]) :
                  task.instances[i][j][1] = legacy.FEATURE_ORDER[k]
             THEN Get(task.instances[i], legacy.FEATURE_ORDER[k]) ELSE NaN]]
  ELSE LET frame == FrameOf(task)
           at(name) == CHOOSE c \in 1..Len(frame.columns) : frame.columns[c] = name
       IN [i \in 1..Len(task.instances) |->
             IF task.X.labels # None
             THEN [k \in 1..Len(task.X.labels[1]) |->
                     IF \E c \in 1..Len(frame.columns) :
                          frame.columns[c] = task.X.labels[1][k]
                     THEN frame.rows[i][at(task.X.labels[1][k])] ELSE Num(0)]
             ELSE [k \in 1..Len(task.X.values[i]) |->
                     IF k <= Len(frame.columns) THEN frame.rows[i][k] ELSE Num(0)]]

\* the class and the probability of class 1 the model gives for a row
PredictionFor(row) == score(row) % 2
ProbabilityFor(row) == Div(score(row) % 5, 4)

\* C19: for every non-empty batch of n instances, a call of predict_churn
\* that returns, on either backend, returns exactly n records whose index
\* fields are 0, 1, ..., n-1 in that order, and record i carries the model's
\* prediction (and its probability, when there is one) for input instance i,
\* whether or not feature engineering and column alignment added, dropped
\* or reordered columns.
C19_OneRecordPerInstanceInOrder ==
  \A t \in Tasks :
    (tasks[t].pc = "returned" /\ Len(tasks[t].instances) > 0) =>
      LET n == Len(tasks[t].instances)
          results == tasks[t].results
          rows == RowsFor(tasks[t])
      IN /\ Len(results) = n
         /\ \A i \in 1..n :
              /\ results[i].index = i - 1
              /\ results[i].prediction = PredictionFor(rows[i])
              /\ results[i].probability # None =>
                   results[i].probability = Some(ProbabilityFor(rows[i]))

\* C19 witness: a call on the integrated backend returned for a batch of two
\* instances whose predictions differ, after feature engineering replaced
\* the columns of the batch and alignment reordered or dropped some.
C19_Witness ==
  \E t \in Tasks :
    /\ backend = "integrated"
    /\ tasks[t].pc = "returned"
    /\ Len(tasks[t].instances) = 2
    /\ Len(tasks[t].results) = 2
    /\ tasks[t].results[1].prediction # tasks[t].results[2].prediction
    /\ tasks[t].results[1].probability # None
    /\ tasks[t].results[1].probability # tasks[t].results[2].probability
    /\ tasks[t].engineered
    /\ tasks[t].X.labels # None
    /\ tasks[t].X.labels # Some(FEATURES_29)

\* a task that returned holds one record per instance of its own batch, with
\* the indices 0..n-1 and the model's answers for its own rows
OwnRecords(t) ==
  LET n == Len(tasks[t].instances)
      rows == RowsFor(tasks[t])
  IN /\ Len(tasks[t].results) = n
     /\ \A i \in 1..n :
          /\ tasks[t].results[i].index = i - 1
          /\ tasks[t].results[i].prediction = PredictionFor(rows[i])

\* the cached model and the cached feature order, once set, stay as they are
CacheKept ==
  /\ ml._model # None => ml'._model = ml._model
  /\ ml._feature_order # None => ml'._feature_order = ml._feature_order

\* C20 as stated: for any interleaving of concurrent predict_churn calls the
\* model artifact is read from disk at most once and each call that returned
\* holds exactly the records of its own batch.
C20_ReadAtMostOnce ==
  /\ ml.reads <= 1
  /\ \A t \in Tasks : tasks[t].pc = "returned" => OwnRecords(t)

\* C20, amended: for any interleaving of concurrent predict_churn calls
\* (which yield at the awaited model.predict / predict_proba), once a model
\* is cached the artifact has been read exactly once and is not read again,
\* the cached model and feature order are not modified once they are set,
\* and each call that returns holds exactly the records of its own batch
\* with the indices 0..n-1.  Only an artifact that no call can cache (a dict
\* without model, pipeline or estimator) is read again, by every call.
C20_CachedModelReadOnce ==
  /\ [](/\ ml._model # None => ml.reads = 1
        /\ ml.reads > 1 =>
             LET path == IF disk.PRIMARY_MODEL # None THEN disk.PRIMARY_MODEL
                         ELSE disk.FALLBACK_MODEL
             IN /\ path # None
                /\ path[1].type = "dict"
                /\ \A k \in 1..Len(path[1].items) :
                     path[1].items[k][1] \notin {"model", "pipeline", "estimator"}
        /\ \A t \in Tasks : tasks[t].pc = "returned" => OwnRecords(t))
  /\ [][CacheKept]_vars

\* C20 witness: task 1 returned the two records of its batch while task 2,
\* called with a batch of one, is still waiting for model.predict, and the
\* artifact was read once.
C20_Witness ==
  /\ tasks[1].pc = "returned"
  /\ Len(tasks[1].results) = 2
  /\ tasks[1].results[1].prediction # tasks[1].results[2].prediction
  /\ tasks[2].pc = "await_predict"
  /\ Len(tasks[2].instances) = 1
  /\ ml._model # None
  /\ ml.reads = 1

-----------------------------------------------------------------------------
(* Termination of create_multiple_snapshots, under SpecSnapFair *)

\* floor((end_date - start_date) / step_days) + 1, and 0 for an empty range
IterationBound ==
  LET planned == (snap.end_date - snap.start_date)
                   \div timedelta_days(config.step_days) + 1
  IN IF planned < 0 THEN 0 ELSE planned

\* C21: for every finite range and every TemporalConfig with step_days > 0,
\* a call of create_multiple_snapshots terminates, by returning a dataset or
\* by raising 'No valid snapshots generated', after at most
\* floor((end_date - start_date) / step_days) + 1 cutoff iterations.
C21_SnapshotsTerminate ==
  /\ [](Len(snap.visited) <= IterationBound)
  /\ (snap.pc = "loop") ~> (snap.pc \in {"returned", "raised"})

\* C21 witness: the call over 2024-01-01 .. 2024-03-01 with a step of 14 days
\* has ended after exactly its 5 iterations.
C21_Witness ==
  /\ snap.pc \in {"returned", "raised"}
  /\ config.step_days = 14
  /\ snap.end_date - snap.start_date = timedelta_days(60)
  /\ Len(snap.visited) = 5
  /\ IterationBound = 5

-----------------------------------------------------------------------------
(* The serving frame against the training dicts, under SpecFeatures *)

\* the keys of a dict in the order they were inserted
KeyOrder(d) == [k \in 1..Len(d) |-> d[k][1]]

\* C22: feature_engineering raises on no frame of raw signals and returns one
\* row per input row, in the input's order, under exactly the 29 columns of
\* FEATURES_29 in that order; the dict _extract_customer_features returns, for
\* an empty slice and for a non-empty one, has exactly those names as its
\* keys in the same order.
C22_ServingColumnsAreTrainingKeys ==
  /\ tasks[1].pc # "raised"
  /\ tasks[1].pc = "returned" =>
       /\ tasks[1].df.columns = FEATURES_29
       /\ Len(tasks[1].df.rows) = Len(tasks[1].instances)
       /\ \A i \in 1..Len(tasks[1].instances) :
            LET out == engineered(RawOf(tasks[1].instances, i))
            IN tasks[1].df.rows[i] = [k \in 1..Len(out) |-> out[k][2]]
  /\ extract_call.status = "returned" =>
       /\ KeyOrder(extract_call.value) = FEATURES_29
       /\ KeyOrder(get_default_features) = FEATURES_29
       /\ tasks[1].pc = "returned" =>
            KeyOrder(extract_call.value) = tasks[1].df.columns

\* C22 witness: a frame of two different rows, one lacking signals the other
\* has, was engineered and a non-empty slice was extracted
C22_Witness ==
  /\ tasks[1].pc = "returned"
  /\ Len(tasks[1].instances) = 2
  /\ Len(tasks[1].instances[1]) < Len(tasks[1].instances[2])
  /\ tasks[1].df.rows[1] # tasks[1].df.rows[2]
  /\ extract_call.status = "returned"
  /\ Len(data) > 0

-----------------------------------------------------------------------------
(* What the pipeline calls leave alone, under SpecFrame *)

\* C23: every step of build_training_table and of create_multiple_snapshots,
\* the returning and the raising ones included, leaves the model, the scaler,
\* feature_columns, feature_importance_ and the config of every predictor,
\* and the event table passed in, as they were.
C23_PipelineLeavesPredictorAndTable ==
  [][(table_call' # table_call \/ snap' # snap) =>
       /\ predictors' = predictors
       /\ config' = config
       /\ data' = data]_vars

\* C23 witness: on a fitted predictor and a table of one event,
\* build_training_table has raised and create_multiple_snapshots has returned
C23_Witness ==
  /\ predictors[1].model # None
  /\ predictors[1].feature_importance_ # None
  /\ Len(data) > 0
  /\ table_call.status = "raised"
  /\ snap.pc = "returned"

\* C23 witness of the other outcomes: build_training_table has returned and
\* create_multiple_snapshots has raised, on a predictor whose training failed
C23_WitnessRaised ==
  /\ predictors[1].model # None
  /\ predictors[1].feature_importance_ = None
  /\ table_call.status = "returned"
  /\ snap.pc = "raised"

\* C24: in the records a call of predict_churn returns, on either backend,
\* probability is null exactly when the model has no predict_proba or its
\* predict_proba raised; the call then still returns the prediction of every
\* row, and once predict has returned no error ends the call; otherwise the
\* probability of record i is the model's class-1 probability for row i.
C24_NullProbabilityIffNoPredictProba ==
  /\ [](\A t \in Tasks :
          (tasks[t].pc = "returned" /\ Len(tasks[t].instances) > 0) =>
            LET model == tasks[t].model[1]
                results == tasks[t].results
                rows == RowsFor(tasks[t])
                no_proba == \/ model.predict_proba = "absent"
                            \/ predict_proba(model, tasks[t].X).exc # "none"
            IN /\ Len(results) = Len(tasks[t].instances)
               /\ \A i \in 1..Len(results) :
                    /\ results[i].prediction = PredictionFor(rows[i])
                    /\ (results[i].probability = None) <=> no_proba
                    /\ ~no_proba =>
                         results[i].probability = Some(ProbabilityFor(rows[i])))
  /\ [][\A t \in Tasks :
          tasks[t].pc = "await_proba" =>
            tasks'[t].pc \in {"await_proba", "returned"}]_vars

\* C24 witness: a call returned two records with different predictions and
\* null probabilities because predict_proba raised
C24_Witness ==
  \E t \in Tasks :
    /\ tasks[t].pc = "returned"
    /\ Len(tasks[t].results) = 2
    /\ tasks[t].model[1].predict_proba = "raises"
    /\ tasks[t].results[1].probability = None
    /\ tasks[t].results[1].prediction # tasks[t].results[2].prediction

\* C24 witness of the other cases: a model without predict_proba gave null
\* probabilities on the legacy backend
C24_WitnessAbsent ==
  \E t \in Tasks :
    /\ backend = "legacy"
    /\ tasks[t].pc = "returned"
    /\ tasks[t].model[1].predict_proba = "absent"
    /\ Len(tasks[t].results) > 0
    /\ tasks[t].results[1].probability = None

-----------------------------------------------------------------------------
(* Properties of the cached model and feature order, under SpecLoad *)

\* C25: after any sequence of load_pipeline, get_pipeline,
\* get_expected_features, pipeline_ready and predict_churn calls, failed
\* loads included, a cached model (pipeline_ready() true) has predict, and no
\* call returns an object without predict.
C25_CachedModelHasPredict ==
  /\ ml._model # None => ml._model[1].predict
  /\ (load_call.name = "pipeline_ready" /\ load_call.value = Some(TRUE)) =>
       ml._model[1].predict
  /\ (load_call.name = "get_pipeline" /\ load_call.exc = "none") =>
       load_call.value[1].predict

\* the state C25 excludes: get_pipeline has returned an object without predict
C25_ReturnedWithoutPredict ==
  /\ load_call.name = "get_pipeline"
  /\ load_call.exc = "none"
  /\ ~load_call.value[1].predict

\* the feature order the model artifact on disk carries: the first of
\* feature_order, features and feature_names of a dict that is not empty
BundledOrder ==
  LET path == IF disk.PRIMARY_MODEL # None THEN disk.PRIMARY_MODEL
              ELSE disk.FALLBACK_MODEL
      entry(key) ==
        IF path # None /\ path[1].type = "dict"
           /\ \E k \in 1..Len(path[1].items) : path[1].items[k][1] = key
        THEN Get(path[1].items, key) ELSE None
      nonempty(x) == x # None /\ x[1] # <<>>
  IN IF nonempty(entry("feature_order")) THEN entry("feature_order")
     ELSE IF nonempty(entry("features")) THEN entry("features")
     ELSE IF nonempty(entry("feature_names")) THEN entry("feature_names")
     ELSE None

\* C26 as stated: once the feature order is cached, no later call of
\* _load_model, _load_feature_order, load_pipeline, get_expected_features or
\* predict_churn replaces it with a different list; when the bundle carries
\* a feature order, that order is the one cached.
C26_FeatureOrderNeverReplaced ==
  /\ [][ml._feature_order # None => ml'._feature_order = ml._feature_order]_vars
  /\ []((ml._model # None /\ BundledOrder # None) =>
          ml._feature_order = BundledOrder)

\* C26, amended: once a model is cached, the cached feature order is replaced
\* by no later call; before a model is cached, a feature order cached from
\* feature_order.json by a direct _load_feature_order call is replaced only by
\* the first read of a bundle that carries its own order, with that order;
\* whenever a model is cached and the bundle carries a feature order, that
\* order - not the JSON file's - is the one cached.
C26_FeatureOrderKeptOnceModelCached ==
  /\ [][(ml._feature_order # None /\ ml'._feature_order # ml._feature_order) =>
          /\ ml._model = None
          /\ ml'._model # None
          /\ BundledOrder # None
          /\ ml'._feature_order = BundledOrder]_vars
  /\ []((ml._model # None /\ BundledOrder # None) =>
          ml._feature_order = BundledOrder)

\* C26 witness: with a model cached from a bundle that carries a feature
\* order, and a feature_order.json holding another list, a later
\* _load_feature_order call returned the bundle's order
C26_Witness ==
  /\ ml._model # None
  /\ BundledOrder # None
  /\ disk.FEATURE_ORDER_PATH # None
  /\ Some(disk.FEATURE_ORDER_PATH[1].items) # BundledOrder
  /\ load_call.name = "_load_feature_order"
  /\ load_call.value = BundledOrder

-----------------------------------------------------------------------------
(* Consistency of a predictor's fields, under SpecPredictor *)

\* C27: after any sequence of train_model and load_model calls, raising ones
\* included, a predictor that has a model has a fitted model, a fitted scaler
\* and feature_columns that come from one training run; and a train_model call
\* that raised has left model, scaler, feature_columns and feature_importance_
\* as they were before the call.
C27_FieldsFromOneRun ==
  /\ \A i \in Instances :
       predictors[i].model # None =>
         /\ predictors[i].model[1].fitted
         /\ predictors[i].scaler.fitted
         /\ predictors[i].scaler.frame = predictors[i].model[1].frame
         /\ predictors[i].feature_columns = Some(predictors[i].model[1].columns)
         /\ predictors[i].feature_columns = Some(predictors[i].scaler.columns)
  /\ (predictor_call.name = "train_model" /\ predictor_call.exc # "none") =>
       LET self == predictors[predictor_call.self]
           before == predictor_call.before
       IN /\ self.model = before.model
          /\ self.scaler = before.scaler
          /\ self.feature_columns = before.feature_columns
          /\ self.feature_importance_ = before.feature_importance_

-----------------------------------------------------------------------------
(* Cutoffs whose observation window is empty, under SpecFrame *)

\* C28: build_training_table called for a cutoff whose observation window
\* holds no event returns an empty feature table and an empty label series
\* without raising; create_multiple_snapshots gets that empty table at such a
\* cutoff, leaves it out through its length check and goes on to the next
\* cutoff.
C28_EmptyWindowGivesEmptyTable ==
  /\ (table_call.status # "idle"
      /\ ObservedCustomers(table_call.cutoff_date) = {}) =>
       /\ table_call.status = "returned"
       /\ table_call.exc = "none"
       /\ table_call.features = <<>>
       /\ table_call.labels = <<>>
  /\ \A k \in 1..Len(snap.visited) :
       ObservedCustomers(snap.visited[k]) = {} =>
         build_training_table(data, snap.visited[k]).exc = "none"
  /\ SnapDone => snap.visited = ExpectedCutoffs(snap.start_date, snap.end_date)

-----------------------------------------------------------------------------
(* The legacy backend's cache, under SpecLoad *)

\* C29: in the legacy backend, after any sequence of load_pipeline,
\* build_dataframe and predict_churn calls, a cached pipeline comes with
\* FEATURE_ORDER holding the list of feature_order.json; and a call whose
\* load failed has left pipeline and FEATURE_ORDER unset, so that the next
\* call loads both again.
C29_PipelineCachedWithItsOrder ==
  /\ legacy.pipeline # None =>
       /\ disk.LEGACY_FEATURE_ORDER_PATH # None
       /\ legacy.FEATURE_ORDER = disk.LEGACY_FEATURE_ORDER_PATH[1]
  /\ (backend = "legacy" /\ load_call.exc # "none") =>
       /\ legacy.pipeline = None
       /\ legacy.FEATURE_ORDER = <<>>
  /\ \A t \in Tasks :
       (backend = "legacy" /\ tasks[t].exc = "FileNotFoundError") =>
         legacy.pipeline = None

-----------------------------------------------------------------------------
(* Ranges of the fields of a feature row, under SpecRows *)

\* the whole number a field of a row holds
Whole(row, name) == Get(row, name)[1]

\* C30: in every feature row build_training_table returns, recency_days is
\* between 0 and observation_days, and is observation_days when the customer
\* has no purchase in the window; total_events is at least 1; days_active is
\* between 1 and total_events; and activity_trend is between -total_events
\* and total_events and has the parity of total_events.
C30_RowFieldsInRange ==
  table_call.status = "returned" =>
    \A i \in 1..Len(table_call.features) :
      LET row == table_call.features[i]
          observed == ObservedSlice(table_call.customer_ids[i], table_call.cutoff_date)
          total_events == Whole(row, "total_events")
          activity_trend == Whole(row, "activity_trend")
      IN /\ \A name \in {"recency_days", "total_events", "days_active",
                         "activity_trend"} : Get(row, name)[2] = 1
         /\ 0 <= Whole(row, "recency_days")
         /\ Whole(row, "recency_days") <= config.observation_days
         /\ (\A k \in 1..Len(observed) : observed[k].event_type # "purchase") =>
              Whole(row, "recency_days") = config.observation_days
         /\ total_events >= 1
         /\ 1 <= Whole(row, "days_active")
         /\ Whole(row, "days_active") <= total_events
         /\ -total_events <= activity_trend
         /\ activity_trend <= total_events
         /\ (total_events - activity_trend) % 2 = 0

\* C30 witness: a row of three events on two days, more of them in the first
\* half of the window than in the second, with a purchase less than a day
\* before the cutoff
C30_Witness ==
  /\ table_call.status = "returned"
  /\ \E i \in 1..Len(table_call.features) :
       /\ Whole(table_call.features[i], "total_events") = 3
       /\ Whole(table_call.features[i], "days_active") = 2
       /\ Whole(table_call.features[i], "activity_trend") = -1
       /\ Whole(table_call.features[i], "recency_days") = 0

====
